---- MODULE Spec2Model ----
(***************************************************************************)
(* Publishing pipeline of wechat_publisher_web: the PublishingJob store,   *)
(* start_processing_job and confirm_and_publish_job of                     *)
(* publisher/services.py, with the remote WeChat API as a nondeterministic *)
(* environment.  Every database write (job.save) and every remote call is  *)
(* one step of the invocation that makes it.                               *)
(***************************************************************************)
EXTENDS Integers, Sequences, FiniteSets, TLC

\* ---------------------------------------------------------------- bounds
\* service calls explored in one behaviour; a job needs a start call and then
\* confirm calls, so at most half of the calls (rounded up) create a job
MaxCalls == 3
\* service calls explored when calls may overlap in time
MaxOverlapCalls == 2

AllProcs == {1, 2}
SeqProcs == {1}

\* ------------------------------------------------------- program constants
max_retries == 1
ERROR_MESSAGE_LIMIT == 1000
THUMB_ERRCODE == 40007

PENDING == "PENDING"
PROCESSING == "PROCESSING"
PREVIEW_READY == "PREVIEW_READY"
PUBLISHING == "PUBLISHING"
PUBLISHED == "PUBLISHED"
FAILED == "FAILED"
Status == {PENDING, PROCESSING, PREVIEW_READY, PUBLISHING, PUBLISHED, FAILED}

\* Concrete (non-pk) columns of the PublishingJob table.  created_at and
\* updated_at are maintained by the database layer and carry no pipeline
\* information; they are kept only as names that update_fields may mention.
ModelFields ==
  {"status", "original_markdown_path", "original_cover_image_path", "metadata",
   "thumb_media_id", "preview_html_path", "wechat_media_id", "error_message",
   "created_at", "updated_at"}

\* The columns the pipeline reads and writes (the in-memory job instance
\* carries the same attributes).
DataFields ==
  {"status", "original_markdown_path", "original_cover_image_path", "metadata",
   "thumb_media_id", "preview_html_path", "wechat_media_id", "error_message"}

JOB_STATUS_UPDATE_FIELDS_NoStatus == {"updated_at"}
JOB_STATUS_UPDATE_FIELDS == {"status", "updated_at"}
JOB_ERROR_UPDATE_FIELDS_NoStatus == {"error_message", "updated_at"}
JOB_ERROR_UPDATE_FIELDS == {"status", "error_message", "updated_at"}
JOB_PATHS_UPDATE_FIELDS == {"original_markdown_path", "original_cover_image_path", "updated_at"}
JOB_THUMB_UPDATE_FIELDS == {"thumb_media_id", "updated_at"}
JOB_METADATA_UPDATE_FIELDS == {"metadata", "updated_at"}
JOB_PREVIEW_UPDATE_FIELDS_NoPath == {"status", "updated_at"}
JOB_PREVIEW_UPDATE_FIELDS == {"preview_html_path", "status", "updated_at"}
JOB_PUBLISH_SUCCESS_FIELDS_NoStatus == {"wechat_media_id", "error_message", "updated_at"}
JOB_PUBLISH_SUCCESS_FIELDS == {"status", "wechat_media_id", "error_message", "published_at", "updated_at"}
JOB_ERROR_MSG_UPDATE_FIELDS == {"error_message", "updated_at"}

\* ------------------------------------------------------------------ text
\* A text is a sequence of tokens.  Decimal digits are single-character
\* tokens, so that a substring test for "40007" is computed on characters;
\* every other token is an opaque piece of text with a length in characters.
Digit == {"0", "1", "2", "3", "4", "5", "6", "7", "8", "9"}
DigitChar(d) ==
  CASE d = 0 -> "0" [] d = 1 -> "1" [] d = 2 -> "2" [] d = 3 -> "3" [] d = 4 -> "4"
    [] d = 5 -> "5" [] d = 6 -> "6" [] d = 7 -> "7" [] d = 8 -> "8" [] OTHER -> "9"

RECURSIVE IntToText(_)
IntToText(n) == IF n < 10 THEN <<DigitChar(n)>> ELSE IntToText(n \div 10) \o <<DigitChar(n % 10)>>

LONG_UPSTREAM == "<upstream text of 1200 characters>"
TokLen(t) == IF t \in Digit THEN 1 ELSE IF t = LONG_UPSTREAM THEN 1200 ELSE 20
CUT == "<cut>"

RECURSIVE TextLen(_)
TextLen(t) == IF t = <<>> THEN 0 ELSE TokLen(Head(t)) + TextLen(Tail(t))

\* text[:limit]: whole tokens while they fit; a token that straddles the limit
\* is replaced by the marker of a cut token.
RECURSIVE Truncate(_, _)
Truncate(t, limit) ==
  IF t = <<>> \/ limit <= 0 THEN <<>>
  ELSE IF TokLen(Head(t)) <= limit
       THEN <<Head(t)>> \o Truncate(Tail(t), limit - TokLen(Head(t)))
       ELSE <<CUT>>

\* needle in text, for a needle given as a sequence of tokens
Contains(t, needle) ==
  \E i \in 1..(Len(t) - Len(needle) + 1) : SubSeq(t, i, i + Len(needle) - 1) = needle

TEXT_40007 == <<"4", "0", "0", "0", "7">>
INVALID_IP == "invalid ip"
NOT_IN_WHITELIST == "not in whitelist"
IsWhitelistError(t) == Contains(t, <<INVALID_IP>>) /\ Contains(t, <<NOT_IN_WHITELIST>>)

\* ------------------------------------------------------------- exceptions
RuntimeError == "RuntimeError"
ValueError == "ValueError"
FileNotFoundError == "FileNotFoundError"
OtherException == "Exception"
ObjectDoesNotExist == "ObjectDoesNotExist"
NoExc == [type |-> "none", msg |-> <<>>]
Exc(type, msg) == [type |-> type, msg |-> msg]

\* ---------------------------------------------------------------- job rows
\* job.metadata is null or a dict; a key maps to a text, ABSENT marks a key
\* that is not in the dict (dict.get returns None for it).
ABSENT == <<"<absent>">>
NONSTRING == <<"<int>">>
NoMetadata == [isDict |-> FALSE, title |-> ABSENT, cover_image_path |-> ABSENT, digest |-> ABSENT]
EmptyDict == [isDict |-> TRUE, title |-> ABSENT, cover_image_path |-> ABSENT, digest |-> ABSENT]
DictIsEmpty(m) == m.title = ABSENT /\ m.cover_image_path = ABSENT /\ m.digest = ABSENT
\* "not value" of Python for the value of a key
Falsy(v) == v = ABSENT \/ v = <<>>

\* PublishingJob.objects.create(task_id=..., status=PENDING): every other
\* column takes its null default.
NewJob ==
  [status |-> PENDING, original_markdown_path |-> "", original_cover_image_path |-> "",
   metadata |-> NoMetadata, thumb_media_id |-> "", preview_html_path |-> "",
   wechat_media_id |-> "", error_message |-> <<>>]

\* job.save(update_fields=fields) raises ValueError and writes nothing when a
\* name in fields is not a concrete column of the model.
SaveAccepts(fields) == fields \subseteq ModelFields

\* The row after a successful job.save(update_fields=fields): the listed
\* columns take the in-memory values, the others keep the stored ones.
SavedRowAllColumns(row, mem, fields) == mem
SavedRow(row, mem, fields) ==
  [f \in DataFields |-> IF f \in fields THEN mem[f] ELSE row[f]]

SAVE_ERROR == <<"The following fields do not exist in this model, are m2m fields, or are non-concrete fields: published_at">>


\* ------------------------------------------------------------ environment
\* Content digests of cover images (sha256 of the processed file); NO_HASH is
\* calculate_file_hash returning None.
Digests == {"h1"}
NO_HASH == ""
ThumbIds == {"T1", "T2"}
DraftIds == {"D1"}
TOKEN == "ACCESS_TOKEN"
DRAFT_URL == "https://api.weixin.qq.com/cgi-bin/draft/add?access_token=ACCESS_TOKEN"

\* upstream errmsg texts of a WeChat error response
ERRMSG_PLAIN == <<"invalid media_id hint">>
ERRMSG_RID == <<"invalid credential rid: ">> \o TEXT_40007
ErrMsgs == {ERRMSG_PLAIN, ERRMSG_RID}
OTHER_ERRCODE == 40001
ErrCodes == {THUMB_ERRCODE, OTHER_ERRCODE}

\* What the remote side can answer to POST /cgi-bin/draft/add.
DraftResponses ==
  [kind : {"ok"}, errcode : {0}, errmsg : {<<>>}, media_id : DraftIds \cup {""}]
  \cup {r \in [kind : {"errcode"}, errcode : ErrCodes, errmsg : ErrMsgs, media_id : {""}] :
          r.errcode = THUMB_ERRCODE => r.errmsg = ERRMSG_PLAIN}
  \cup [kind : {"transport"}, errcode : {0}, errmsg : {<<>>}, media_id : {""}]

\* wechat_api.add_draft on top of _check_response: the media_id, or the
\* RuntimeError it raises.
add_draft(r) ==
  CASE r.kind = "ok" -> [exc |-> NoExc, media_id |-> r.media_id]
    [] r.kind = "errcode" ->
         [exc |-> Exc(RuntimeError,
                      <<"WeChat API error (", DRAFT_URL, "): ">> \o IntToText(r.errcode)
                        \o <<" - ">> \o r.errmsg),
          media_id |-> ""]
    [] r.kind = "http_error" ->
         [exc |-> Exc(RuntimeError, <<"Network error during API call to ", DRAFT_URL>>), media_id |-> ""]
    [] r.kind = "no_media_id" ->
         [exc |-> Exc(RuntimeError, <<"WeChat API did not return 'media_id' after adding draft">>),
          media_id |-> ""]
    [] OTHER -> [exc |-> Exc(RuntimeError, <<"Failed to add draft to WeChat">>), media_id |-> ""]

\* What wechat_api.upload_thumb_media can produce: an id (possibly empty) or
\* an exception (validation, transport or upstream error).
UPLOAD_ERROR == <<"WeChat API error (add_material): upload failed">>
ThumbUploads ==
  [exc : {NoExc}, media_id : ThumbIds \cup {""}]
  \cup [exc : {Exc(RuntimeError, UPLOAD_ERROR)}, media_id : {""}]

\* What auth.get_access_token can produce.
TOKEN_ERROR == <<"Failed to retrieve access token from WeChat: ", "system busy">>
TOKEN_WHITELIST_ERROR ==
  <<"Failed to retrieve access token from WeChat: ", INVALID_IP, " 1.2.3.4, ", NOT_IN_WHITELIST>>
\* the handler of last resort in get_access_token wraps the error raised for
\* a WeChat error body
TOKEN_UNEXPECTED == "Unexpected error fetching access token: "
TokenResults ==
  [exc : {NoExc}, token : {TOKEN, ""}]
  \cup [exc : {Exc(RuntimeError, <<TOKEN_UNEXPECTED>> \o TOKEN_ERROR),
               Exc(RuntimeError, <<TOKEN_UNEXPECTED>> \o TOKEN_WHITELIST_ERROR)}, token : {""}]

\* ------------------------------------------------------------------ state
VARIABLES
  nCalls,      \* number of service calls made so far
  jobs,        \* the PublishingJob table: task id -> row
  covers,      \* task id -> content digest of the job's saved (processed) cover image
  thumbCache,  \* django cache, keys wechat_thumb_sha256_<digest> -> media id ("" = no entry)
  contentCache, \* django cache, keys wechat_content_url_sha256_<digest> -> (url, error)
  thumbRuns,   \* history: task id -> what its start run did for the thumbnail
  calls,       \* per invocation slot: position and locals of the running service call
  tokenCache,  \* auth._token_cache: the access token and its expiry (Unix seconds)
  now,         \* time.time(), in seconds
  engineCall   \* the publishing_engine function call in hand: arguments and, once run, result

vars == <<nCalls, jobs, covers, thumbCache, contentCache, thumbRuns, calls, tokenCache, now, engineCall>>

\* _token_cache = {"access_token": None, "expires_at": 0}
EmptyTokenCache == [access_token |-> "", expires_at |-> 0]

\* no publishing_engine function has been called
NoEngineCall == [fn |-> "none"]

\* thumbRuns entry of a job whose start run has not reached the thumbnail step
NoThumbRun == [hash |-> "", uploads |-> 0, thumb |-> ""]

\* no cached (url, error) tuple under a content-image key
NO_ENTRY == [hit |-> FALSE, url |-> "", err |-> ""]
ContentDigests == {"c1"}

\* the call has not read the Markdown file yet
NoFrontmatter == [kind |-> "unread", title |-> ABSENT, cover_image_path |-> ABSENT, digest |-> ABSENT]

NoResult == [preview_url |-> "", status |-> "", wechat_media_id |-> "", warnings |-> <<>>]

IdleCall ==
  [pc |-> "idle", op |-> "none", job |-> 0, mem |-> NewJob, published_at |-> FALSE,
   access_token |-> "", warnings |-> <<>>,
   frontmatter |-> NoFrontmatter, title_defaulted |-> FALSE,
   doc |-> <<>>, srcs |-> <<>>, nContentUpload |-> 0, rendered |-> FALSE,
   cover_image_hash |-> "",
   attempt |-> 0, current_thumb_media_id |-> "", payload_thumb |-> "", final_media_id |-> "",
   nSubmit |-> 0, nUpload |-> 0, nToken |-> 0, submits |-> <<>>, reupload_id |-> "",
   retry |-> <<>>,
   preStatus |-> "", preThumb |-> "",
   outcome |-> "none", exc |-> NoExc, result |-> NoResult]

Init ==
  /\ nCalls = 0
  /\ jobs = <<>>
  /\ covers = <<>>
  /\ thumbCache = [d \in Digests |-> ""]
  /\ contentCache = [d \in ContentDigests |-> NO_ENTRY]
  /\ thumbRuns = <<>>
  /\ calls = [p \in AllProcs |-> IdleCall]
  /\ tokenCache = EmptyTokenCache
  /\ now = 0
  /\ engineCall = NoEngineCall

\* slot p can take a new service call
Free(p) == calls[p].pc \in {"idle", "done"} /\ nCalls < MaxCalls

\* ------------------------------------------------- start_processing_job
UNEXPECTED_PROCESSING == <<"An unexpected internal error occurred during processing. Please check application logs.">>

\* The except clauses of start_processing_job: the message recorded on the
\* job and the exception re-raised to the caller.
StartErrMsg(e) ==
  CASE e.type = FileNotFoundError -> <<"Required file not found: ">> \o e.msg
    [] e.type = ValueError -> <<"Invalid data, config, or image processing failed: ">> \o e.msg
    [] e.type = RuntimeError ->
         IF IsWhitelistError(e.msg)
         THEN <<"WeChat API Error: The server's IP address is not in the WeChat Official Account IP whitelist. (Original error: ">>
                \o e.msg \o <<")">>
         ELSE e.msg
    [] OTHER -> UNEXPECTED_PROCESSING

StartStored(e) ==
  IF e.type \in {FileNotFoundError, ValueError, RuntimeError}
  THEN Truncate(StartErrMsg(e), ERROR_MESSAGE_LIMIT)
  ELSE StartErrMsg(e)

StartRaised(e) ==
  IF e.type \in {FileNotFoundError, ValueError, RuntimeError} THEN Exc(e.type, StartErrMsg(e)) ELSE e

\* An exception e escapes the try block of invocation p, whose locals (with
\* the in-memory job c.mem) are c: the job is marked FAILED with the message
\* and the error is re-raised.
StartFail(p, c, e) ==
  LET mem2 == [c.mem EXCEPT !.status = FAILED, !.error_message = StartStored(e)]
  IN /\ jobs' = [jobs EXCEPT ![c.job] = SavedRow(@, mem2, JOB_ERROR_UPDATE_FIELDS)]
     /\ calls' = [calls EXCEPT ![p] = [c EXCEPT !.pc = "done", !.mem = mem2,
                                                !.outcome = "raised", !.exc = StartRaised(e)]]

\* job = PublishingJob.objects.create(task_id=uuid4(), status=PENDING)
SP_Create(p) ==
  /\ Free(p)
  /\ Cardinality(DOMAIN jobs) < (MaxCalls + 1) \div 2
  /\ LET id == Cardinality(DOMAIN jobs) + 1
     IN /\ jobs' = jobs @@ (id :> NewJob)
        /\ calls' = [calls EXCEPT ![p] = [IdleCall EXCEPT !.pc = "sp_processing", !.op = "start",
                                                         !.job = id, !.mem = NewJob]]
        /\ thumbRuns' = thumbRuns @@ (id :> NoThumbRun)
  /\ nCalls' = nCalls + 1
  /\ UNCHANGED <<covers, thumbCache, contentCache, tokenCache, now, engineCall>>

\* job.status = PROCESSING; job.save(update_fields=JOB_STATUS_UPDATE_FIELDS)
SP_Processing(p) ==
  /\ calls[p].pc = "sp_processing"
  /\ LET c == calls[p]
         mem2 == [c.mem EXCEPT !.status = PROCESSING]
     IN /\ jobs' = [jobs EXCEPT ![c.job] = SavedRow(@, mem2, JOB_STATUS_UPDATE_FIELDS)]
        /\ calls' = [calls EXCEPT ![p] = [c EXCEPT !.pc = "sp_files", !.mem = mem2]]
  /\ UNCHANGED <<nCalls, covers, thumbCache, contentCache, thumbRuns, tokenCache, now, engineCall>>

SAVE_FILE_ERROR == <<"Failed to save file locally due to file system error.">>
COVER_ERROR == <<"Failed to process cover image: ", "Failed to reduce image size below 64 KB after multiple attempts.">>

\* Save the Markdown file and the cover image, record their paths, then make
\* the cover fit the thumbnail ceiling and save the side-uploaded images.
SP_Files(p) ==
  /\ calls[p].pc = "sp_files"
  /\ LET c == calls[p]
         cMd == [c EXCEPT !.mem.original_markdown_path = "uploads/markdown/md"]
         cBoth == [cMd EXCEPT !.mem.original_cover_image_path = "uploads/cover_images/cover"]
         paths == [jobs EXCEPT ![c.job] = SavedRow(@, cBoth.mem, JOB_PATHS_UPDATE_FIELDS)]
     IN \E step \in {"md_save_fails", "cover_save_fails", "cover_too_large", "image_save_fails", "ok"} :
          \E d \in Digests :
            CASE step = "md_save_fails" ->
                   /\ StartFail(p, c, Exc(RuntimeError, SAVE_FILE_ERROR))
                   /\ UNCHANGED covers
              [] step = "cover_save_fails" ->
                   /\ StartFail(p, cMd, Exc(RuntimeError, SAVE_FILE_ERROR))
                   /\ UNCHANGED covers
              [] step \in {"cover_too_large", "image_save_fails"} ->
                   /\ LET e == IF step = "cover_too_large" THEN Exc(RuntimeError, COVER_ERROR)
                                                           ELSE Exc(RuntimeError, SAVE_FILE_ERROR)
                          mem2 == [cBoth.mem EXCEPT !.status = FAILED, !.error_message = StartStored(e)]
                      IN /\ jobs' = [paths EXCEPT ![c.job] = SavedRow(@, mem2, JOB_ERROR_UPDATE_FIELDS)]
                         /\ calls' = [calls EXCEPT ![p] = [c EXCEPT !.pc = "done", !.mem = mem2,
                                                !.outcome = "raised", !.exc = StartRaised(e)]]
                   /\ covers' = covers @@ (c.job :> d)
              [] OTHER ->
                   /\ jobs' = paths
                   /\ calls' = [calls EXCEPT ![p] = [cBoth EXCEPT !.pc = "sp_token"]]
                   /\ covers' = covers @@ (c.job :> d)
  /\ UNCHANGED <<nCalls, thumbCache, contentCache, thumbRuns, tokenCache, now, engineCall>>

CREDENTIALS_MISSING == <<"WeChat credentials missing.">>
NO_TOKEN == <<"Failed to get WeChat access token.">>
COVER_MISSING == <<"Processed cover image not found at expected path">>

\* Credentials check, auth.get_access_token, existence of the processed
\* cover, then calculate_file_hash of the processed cover.
SP_Token(p) ==
  /\ calls[p].pc = "sp_token"
  /\ LET c == calls[p]
         cT == [c EXCEPT !.nToken = @ + 1]
     IN \E credentials \in BOOLEAN, t \in TokenResults, coverIsFile \in BOOLEAN,
           h \in {covers[c.job], NO_HASH} :
          IF ~credentials THEN StartFail(p, c, Exc(ValueError, CREDENTIALS_MISSING))
          ELSE IF t.exc # NoExc THEN StartFail(p, cT, t.exc)
          ELSE IF t.token = "" THEN StartFail(p, cT, Exc(RuntimeError, NO_TOKEN))
          ELSE IF ~coverIsFile THEN StartFail(p, cT, Exc(FileNotFoundError, COVER_MISSING))
          ELSE /\ calls' = [calls EXCEPT ![p] = [cT EXCEPT !.pc = "sp_thumb", !.access_token = t.token,
                                                          !.cover_image_hash = h]]
               /\ jobs' = jobs
  /\ UNCHANGED <<nCalls, covers, thumbCache, contentCache, thumbRuns, tokenCache, now, engineCall>>

THUMB_UPLOAD_FAILED == "Failed to upload thumbnail to WeChat: "
THUMB_UPLOAD_FAILED_NOHASH == "Failed to upload thumbnail to WeChat (after hash failure): "
NO_THUMB_ID == <<"WeChat API returned no media ID for thumbnail.">>

\* cached_thumb_media_id = cache.get(cache_key), when there is a digest
ThumbCacheMiss(h) == ""
ThumbCacheGet(h) == IF h # NO_HASH THEN thumbCache[h] ELSE ""

\* Thumbnail cache lookup by the digest of the processed cover; on a hit the
\* cached id is stored on the job.
SP_Thumb(p) ==
  /\ calls[p].pc = "sp_thumb"
  /\ LET c == calls[p]
         h == c.cover_image_hash
         cached_thumb_media_id == ThumbCacheGet(h)
     IN IF cached_thumb_media_id # ""
        THEN LET c2 == [c EXCEPT !.mem.thumb_media_id = cached_thumb_media_id, !.pc = "sp_metadata"]
             IN /\ jobs' = [jobs EXCEPT ![c.job] = SavedRow(@, c2.mem, JOB_THUMB_UPDATE_FIELDS)]
                /\ calls' = [calls EXCEPT ![p] = c2]
                /\ thumbRuns' = [thumbRuns EXCEPT ![c.job].hash = h,
                                                  ![c.job].thumb = cached_thumb_media_id]
        ELSE /\ calls' = [calls EXCEPT ![p] = [c EXCEPT !.pc = "sp_upload"]]
             /\ jobs' = jobs
             /\ thumbRuns' = [thumbRuns EXCEPT ![c.job].hash = h]
  /\ UNCHANGED <<nCalls, covers, thumbCache, contentCache, tokenCache, now, engineCall>>

\* cache.set(cache_key, thumb_media_id, timeout=...), when there is a digest
ThumbCacheSetNever(h, thumb_media_id) == thumbCache
ThumbCacheSet(h, thumb_media_id) ==
  IF h # NO_HASH THEN [thumbCache EXCEPT ![h] = thumb_media_id] ELSE thumbCache

\* wechat_api.upload_thumb_media after a cache miss or a hash failure; the
\* new id goes into the cache (when there is a digest) and onto the job.
SP_Upload(p) ==
  /\ calls[p].pc = "sp_upload"
  /\ LET c == [calls[p] EXCEPT !.nUpload = @ + 1]
         h == c.cover_image_hash
         prefix == IF h # NO_HASH THEN THUMB_UPLOAD_FAILED ELSE THUMB_UPLOAD_FAILED_NOHASH
     IN \E u \in ThumbUploads :
          /\ thumbRuns' = [thumbRuns EXCEPT ![c.job].uploads = @ + 1,
                                            ![c.job].thumb = IF u.exc = NoExc THEN u.media_id ELSE ""]
          /\ IF u.exc # NoExc
             THEN StartFail(p, c, Exc(RuntimeError, <<prefix>> \o u.exc.msg)) /\ UNCHANGED thumbCache
             ELSE IF u.media_id = ""
             THEN StartFail(p, c, Exc(RuntimeError, <<prefix>> \o NO_THUMB_ID)) /\ UNCHANGED thumbCache
             ELSE LET c2 == [c EXCEPT !.mem.thumb_media_id = u.media_id, !.pc = "sp_metadata"]
                  IN /\ thumbCache' = ThumbCacheSet(h, u.media_id)
                     /\ jobs' = [jobs EXCEPT ![c.job] = SavedRow(@, c2.mem, JOB_THUMB_UPDATE_FIELDS)]
                     /\ calls' = [calls EXCEPT ![p] = c2]
  /\ UNCHANGED <<nCalls, covers, contentCache, tokenCache, now, engineCall>>


\* ----------------------------------------------------- metadata extraction
\* The uploaded Markdown file as far as extract_metadata_and_content looks at
\* it: how its frontmatter block reads, and the keys of a parsed mapping.
Frontmatters ==
  [kind : {"absent", "unterminated", "empty_block", "yaml_error", "not_dict", "missing_file", "unreadable"},
   title : {ABSENT}, cover_image_path : {ABSENT}, digest : {ABSENT}]
  \cup [kind : {"dict"}, title : {ABSENT, <<>>, <<"T", "i">>},
        cover_image_path : {ABSENT, <<"c", ".", "j", "p", "g">>}, digest : {ABSENT, NONSTRING}]

REQUIRED_FIELDS == {"title", "cover_image_path"}
YAMLError == "YAMLError"

extract_metadata_and_content(fm) ==
  LET metadata == [isDict |-> TRUE, title |-> fm.title, cover_image_path |-> fm.cover_image_path,
                   digest |-> fm.digest]
      missing_fields == {f \in REQUIRED_FIELDS : Falsy(metadata[f])}
  IN CASE fm.kind = "missing_file" -> [exc |-> Exc(FileNotFoundError, <<"File not found: md">>), metadata |-> EmptyDict]
       [] fm.kind = "unreadable" -> [exc |-> Exc(RuntimeError, <<"Failed to read file md">>), metadata |-> EmptyDict]
       [] fm.kind = "yaml_error" -> [exc |-> Exc(YAMLError, <<"mapping values are not allowed here">>), metadata |-> EmptyDict]
       [] fm.kind = "not_dict" ->
            [exc |-> Exc(ValueError, <<"YAML frontmatter content must parse to a dictionary (key-value pairs).">>),
             metadata |-> EmptyDict]
       [] fm.kind = "dict" /\ ~DictIsEmpty(metadata) /\ missing_fields # {} ->
            [exc |-> Exc(ValueError, <<"Missing or empty required metadata fields">>), metadata |-> EmptyDict]
       [] fm.kind = "dict" -> [exc |-> NoExc, metadata |-> metadata]
       [] OTHER -> [exc |-> NoExc, metadata |-> EmptyDict]

\* Path(markdown_file.name).stem.replace('_', ' ').replace('-', ' ').title()
Letters == {"a", "b"}
Upper(ch) == CASE ch = "a" -> "A" [] ch = "b" -> "B" [] OTHER -> ch
ReplaceSeparators(stem) == [i \in 1..Len(stem) |-> IF stem[i] \in {"_", "-"} THEN " " ELSE stem[i]]
TitleCase(t) == [i \in 1..Len(t) |-> IF i = 1 \/ t[i - 1] \notin Letters THEN Upper(t[i]) ELSE t[i]]
DefaultTitle(stem) == TitleCase(ReplaceSeparators(stem))
MarkdownStems == {<<>>, <<"a", "_", "b">>}

INVALID_YAML == "Invalid YAML metadata found in Markdown file: "

\* extract metadata, store it on the job, and substitute the filename-derived
\* title when the metadata has none.
SP_Metadata(p) ==
  /\ calls[p].pc = "sp_metadata"
  /\ LET c == calls[p]
     IN \E fm \in Frontmatters, stem \in MarkdownStems :
          LET r == extract_metadata_and_content(fm)
              c0 == [c EXCEPT !.frontmatter = fm]
              c1 == [c0 EXCEPT !.mem.metadata = r.metadata]
              c2 == [c1 EXCEPT !.mem.metadata.title = DefaultTitle(stem), !.title_defaulted = TRUE]
              saved1 == [jobs EXCEPT ![c.job] = SavedRow(@, c1.mem, JOB_METADATA_UPDATE_FIELDS)]
          IN IF r.exc.type \in {ValueError, YAMLError}
             THEN StartFail(p, c0, Exc(ValueError, <<INVALID_YAML>> \o r.exc.msg))
             ELSE IF r.exc # NoExc THEN StartFail(p, c0, r.exc)
             ELSE IF Falsy(r.metadata.title)
             THEN /\ jobs' = [saved1 EXCEPT ![c.job] = SavedRow(@, c2.mem, JOB_METADATA_UPDATE_FIELDS)]
                  /\ calls' = [calls EXCEPT ![p] = [c2 EXCEPT !.pc = "sp_render"]]
             ELSE /\ jobs' = saved1
                  /\ calls' = [calls EXCEPT ![p] = [c1 EXCEPT !.pc = "sp_render"]]
  /\ UNCHANGED <<nCalls, covers, thumbCache, contentCache, thumbRuns, tokenCache, now, engineCall>>

\* ------------------------------------------------------ rendering, preview
WARNINGS_SEPARATOR == " | Warnings: "
WARNINGS_PREFIX == "Warnings:"
DEFAULTING_TITLE == "Defaulting title"
RENDER_ERROR == <<"markup conversion failed">>
StartsWith(t, tok) == t # <<>> /\ Head(t) = tok

\* ---------------------------------------------------------- content images
\* A local image reference of the Markdown body, as html_processor and the
\* uploader callback meet its file: whether the file is located (next to the
\* Markdown file or in uploads/content_images), how ensure_image_size ends on
\* it, whether the processed path is a file, the digest of the processed file
\* (NO_HASH when calculate_file_hash returns None) and what
\* wechat_api.upload_content_image does when it is called for it.
CONTENT_URL == "http://mmbiz.qpic.cn/u1"
CONTENT_UPLOAD_ERROR == <<"Failed to upload content image">>
ContentUploads ==
  {[exc |-> NoExc, url |-> CONTENT_URL], [exc |-> Exc(RuntimeError, CONTENT_UPLOAD_ERROR), url |-> ""]}
UNLOCATED_IMAGE ==
  [located |-> FALSE, ensure |-> "ok", is_file |-> TRUE, digest |-> NO_HASH, upload |-> [exc |-> NoExc, url |-> CONTENT_URL]]
OVERSIZED_IMAGE == [UNLOCATED_IMAGE EXCEPT !.located = TRUE, !.ensure = ValueError]
ContentImages ==
  {UNLOCATED_IMAGE, OVERSIZED_IMAGE}
  \cup [located : {TRUE}, ensure : {"ok"}, is_file : {TRUE}, digest : ContentDigests \cup {NO_HASH},
        upload : ContentUploads]

MaxImages == 2
\* the local image references of a Markdown body, in document order
Documents == UNION {[1..k -> ContentImages] : k \in 0..MaxImages}
\* bodies without local images or with one image that cannot be resized
PlainDocuments == {<<>>, <<OVERSIZED_IMAGE>>}

LOCAL_SRC == "local"
ImageName(i) == IntToText(i) \o <<".png">>
IMAGE_NOT_FOUND(i) == <<"Image not found: ">> \o ImageName(i)
IMAGE_PROCESSING_FAILED(i, type) == <<"Image processing failed: ">> \o ImageName(i) \o <<" (", type, ")">>
IMAGE_ERROR(i) == <<"Image error: ">> \o ImageName(i)
IMAGE_PROCESSING_ERROR(i) == <<"Image processing error: ">> \o ImageName(i)
IMAGE_SKIPPED(i) == <<"Image skipped (previous failure): ">> \o ImageName(i)
IMAGE_NO_URL(i) == <<"Image upload failed (no URL): ">> \o ImageName(i)
IMAGE_UPLOAD_ERROR(i, type) == <<"Image upload error: ">> \o ImageName(i) \o <<" (", type, ")">>
NO_URL_ERROR == "WeChat API returned no URL for uploaded image"
UPLOAD_ERROR_FOR == "Upload error"

\* state of one image pass: the shared cache, callback_upload_cache,
\* image_processing_warnings, the src of every <img> met so far and the number
\* of upload_content_image calls
ImagePass(cache) ==
  [cache |-> cache, local |-> [d \in ContentDigests |-> NO_ENTRY], warnings |-> <<>>, srcs |-> <<>>,
   uploads |-> 0]

\* cache.set and callback_upload_cache[key] = result, when there is a digest
StoreResultUnkeyed(s, key, entry) ==
  LET k == IF key # NO_HASH THEN key ELSE CHOOSE d \in ContentDigests : TRUE
  IN [s EXCEPT !.cache[k] = entry, !.local[k] = entry]
StoreResult(s, key, entry) ==
  IF key # NO_HASH THEN [s EXCEPT !.cache[key] = entry, !.local[key] = entry] ELSE s

\* cache.get(content_cache_key) or callback_upload_cache.get(content_cache_key),
\* when there is a digest
CachedResultSuccessOnly(s, key) ==
  IF key = NO_HASH THEN NO_ENTRY
  ELSE IF s.cache[key].hit /\ s.cache[key].url # "" THEN s.cache[key]
  ELSE IF s.local[key].url # "" THEN s.local[key] ELSE NO_ENTRY
CachedResult(s, key) ==
  IF key = NO_HASH THEN NO_ENTRY
  ELSE IF s.cache[key].hit THEN s.cache[key] ELSE s.local[key]

\* image_processing_warnings.append(w)
AppendWarningNever(s, w) == s
AppendWarning(s, w) == [s EXCEPT !.warnings = Append(@, w)]

\* _wechat_image_uploader_callback for the i-th image: the url it returns
\* ("" for None) and the image pass after it.
uploader_callback(img, i, s, access_token) ==
  LET key == img.digest
      cached_result == CachedResult(s, key)
      called == [s EXCEPT !.uploads = @ + 1]
  IN IF access_token = "" THEN [url |-> "", s |-> s]
     ELSE IF img.ensure = FileNotFoundError THEN [url |-> "", s |-> AppendWarning(s, IMAGE_NOT_FOUND(i))]
     ELSE IF img.ensure = ValueError THEN [url |-> "", s |-> AppendWarning(s, IMAGE_PROCESSING_FAILED(i, ValueError))]
     ELSE IF img.ensure # "ok" THEN [url |-> "", s |-> AppendWarning(s, IMAGE_ERROR(i))]
     ELSE IF ~img.is_file THEN [url |-> "", s |-> AppendWarning(s, IMAGE_PROCESSING_ERROR(i))]
     ELSE IF cached_result.hit /\ cached_result.url # "" THEN [url |-> cached_result.url, s |-> s]
     ELSE IF cached_result.hit THEN [url |-> "", s |-> AppendWarning(s, IMAGE_SKIPPED(i))]
     ELSE IF img.upload.exc # NoExc
     THEN [url |-> "",
           s |-> AppendWarning(StoreResult(called, key, [hit |-> TRUE, url |-> "", err |-> UPLOAD_ERROR_FOR]),
                      IMAGE_UPLOAD_ERROR(i, img.upload.exc.type))]
     ELSE IF img.upload.url = ""
     THEN [url |-> "",
           s |-> AppendWarning(StoreResult(called, key, [hit |-> TRUE, url |-> "", err |-> NO_URL_ERROR]),
                      IMAGE_NO_URL(i))]
     ELSE [url |-> img.upload.url,
           s |-> StoreResult(called, key, [hit |-> TRUE, url |-> img.upload.url, err |-> ""])]

\* One <img> of _find_and_replace_local_images: a located file goes to the
\* uploader and its src is replaced when a URL comes back; otherwise the src
\* stays.
ReplaceImage(img, i, s, access_token) ==
  IF img.located
  THEN LET r == uploader_callback(img, i, s, access_token)
       IN [r.s EXCEPT !.srcs = Append(@, IF r.url # "" THEN r.url ELSE LOCAL_SRC)]
  ELSE [s EXCEPT !.srcs = Append(@, LOCAL_SRC)]

RECURSIVE find_and_replace_local_images(_, _, _, _)
find_and_replace_local_images(doc, i, s, access_token) ==
  IF i > Len(doc) THEN s
  ELSE find_and_replace_local_images(doc, i + 1, ReplaceImage(doc[i], i, s, access_token), access_token)

\* "; ".join(image_processing_warnings)
RECURSIVE JoinWarnings(_)
JoinWarnings(ws) ==
  IF ws = <<>> THEN <<>>
  ELSE IF Len(ws) = 1 THEN Head(ws)
  ELSE Head(ws) \o <<"; ">> \o JoinWarnings(Tail(ws))

\* html_processor.process_html_content with the image callback, for a body
\* drawn from docs: the conversion itself may raise; the callback appends
\* warnings, which are then recorded in error_message.
SP_Render(p, docs) ==
  /\ calls[p].pc = "sp_render"
  /\ LET c == calls[p]
     IN \E doc \in docs, e \in {NoExc, Exc(OtherException, RENDER_ERROR)} :
          LET r == find_and_replace_local_images(doc, 1, ImagePass(contentCache), c.access_token)
              image_processing_warnings == r.warnings
              c1 == [c EXCEPT !.doc = doc, !.srcs = r.srcs, !.nContentUpload = r.uploads,
                              !.rendered = TRUE,
                              !.warnings = image_processing_warnings, !.pc = "sp_preview"]
              c2 == [c1 EXCEPT !.mem.error_message =
                                  Truncate(@ \o <<WARNINGS_SEPARATOR>> \o JoinWarnings(image_processing_warnings),
                                           ERROR_MESSAGE_LIMIT)]
          IN IF e # NoExc THEN StartFail(p, c, e) /\ UNCHANGED contentCache
             ELSE /\ contentCache' = r.cache
                  /\ IF image_processing_warnings # <<>>
                     THEN /\ jobs' = [jobs EXCEPT ![c.job] = SavedRow(@, c2.mem, JOB_ERROR_MSG_UPDATE_FIELDS)]
                          /\ calls' = [calls EXCEPT ![p] = c2]
                     ELSE /\ calls' = [calls EXCEPT ![p] = c1]
                          /\ jobs' = jobs
  /\ UNCHANGED <<nCalls, covers, thumbCache, thumbRuns, tokenCache, now, engineCall>>

TITLE_DEFAULTED == <<"Title defaulted from filename: ">>
PREVIEW_WRITE_ERROR == <<"Failed to write preview file due to file system error.">>
PREVIEW_PATH == "previews/task.html"
PREVIEW_URL == "/media/previews/task.html"

\* if not image_processing_warnings and job.error_message
\*    and job.error_message.startswith("Warnings:")
ClearsErrorAlways(image_processing_warnings, error_message) == TRUE
ClearsError(image_processing_warnings, error_message) ==
  image_processing_warnings = <<>> /\ StartsWith(error_message, WARNINGS_PREFIX)

\* _generate_preview_file, then the PREVIEW_READY update and the result.
SP_Preview(p) ==
  /\ calls[p].pc = "sp_preview"
  /\ LET c == calls[p]
     IN \E written \in BOOLEAN :
          IF ~written THEN StartFail(p, c, Exc(RuntimeError, PREVIEW_WRITE_ERROR))
          ELSE LET clear == ClearsError(c.warnings, c.mem.error_message)
                   c2 == [c EXCEPT !.mem.preview_html_path = PREVIEW_PATH,
                                   !.mem.status = PREVIEW_READY,
                                   !.mem.error_message = IF clear THEN <<>> ELSE @]
                   titleWarning ==
                     IF Contains(c2.mem.error_message, <<DEFAULTING_TITLE>>)
                     THEN <<TITLE_DEFAULTED \o c2.mem.metadata.title>> ELSE <<>>
               IN /\ jobs' = [jobs EXCEPT ![c.job] =
                                SavedRow(@, c2.mem, JOB_PREVIEW_UPDATE_FIELDS \cup {"error_message"})]
                  /\ calls' = [calls EXCEPT ![p] =
                       [c2 EXCEPT !.pc = "done", !.outcome = "returned",
                                  !.result = [NoResult EXCEPT !.preview_url = PREVIEW_URL,
                                                             !.warnings = c.warnings \o titleWarning]]]
  /\ UNCHANGED <<nCalls, covers, thumbCache, contentCache, thumbRuns, tokenCache, now, engineCall>>


\* ----------------------------------------------- confirm_and_publish_job
MISSING_ID == 0
UNEXPECTED_PUBLISHING == <<"An unexpected internal error occurred during publishing.">>
PRECHECK_FAILED == "Publishing pre-check or setup failed: "

\* get_status_display(): the label of the status choice
StatusLabel(st) ==
  CASE st = PENDING -> "Pending Processing"
    [] st = PROCESSING -> "Processing Content"
    [] st = PREVIEW_READY -> "Preview Ready"
    [] st = PUBLISHING -> "Publishing to WeChat"
    [] st = PUBLISHED -> "Published Successfully"
    [] OTHER -> "Processing/Publishing Failed"

ConfirmErrMsg(e) ==
  CASE e.type \in {ValueError, FileNotFoundError} -> <<PRECHECK_FAILED>> \o e.msg
    [] e.type = RuntimeError ->
         IF IsWhitelistError(e.msg)
         THEN <<"WeChat API Error: The server's IP address is not in the WeChat Official Account IP whitelist. (Original error: ">>
                \o e.msg \o <<")">>
         ELSE e.msg
    [] OTHER -> UNEXPECTED_PUBLISHING

ConfirmStoredWhole(e) == ConfirmErrMsg(e)
ConfirmStored(e) ==
  IF e.type \in {FileNotFoundError, ValueError, RuntimeError}
  THEN Truncate(ConfirmErrMsg(e), ERROR_MESSAGE_LIMIT)
  ELSE ConfirmErrMsg(e)

ConfirmRaised(e) ==
  IF e.type \in {FileNotFoundError, ValueError, RuntimeError} THEN Exc(e.type, ConfirmErrMsg(e)) ELSE e

\* The guard of the except clauses: the job is marked FAILED only when the
\* in-memory job is neither PUBLISHED nor FAILED.
MarksFailedAlways(st) == TRUE
MarksFailed(st) == st \notin {PUBLISHED, FAILED}

\* An exception e escapes the try block of invocation p with locals c.
ConfirmFail(p, c, e) ==
  LET mem2 == IF MarksFailed(c.mem.status)
              THEN [c.mem EXCEPT !.status = FAILED, !.error_message = ConfirmStored(e)]
              ELSE c.mem
  IN /\ jobs' = IF MarksFailed(c.mem.status)
                THEN [jobs EXCEPT ![c.job] = SavedRow(@, mem2, JOB_ERROR_UPDATE_FIELDS)]
                ELSE jobs
     /\ calls' = [calls EXCEPT ![p] = [c EXCEPT !.pc = "done", !.mem = mem2,
                                                !.outcome = "raised", !.exc = ConfirmRaised(e)]]

\* job = PublishingJob.objects.get(pk=task_id)
CP_Load(p) ==
  /\ Free(p)
  /\ \E id \in DOMAIN jobs \cup {MISSING_ID} :
       IF id \notin DOMAIN jobs
       THEN calls' = [calls EXCEPT ![p] =
              [IdleCall EXCEPT !.pc = "done", !.op = "confirm", !.outcome = "raised",
                               !.exc = Exc(ObjectDoesNotExist, <<"Job not found.">>)]]
       ELSE calls' = [calls EXCEPT ![p] =
              [IdleCall EXCEPT !.pc = "cp_preflight", !.op = "confirm", !.job = id, !.mem = jobs[id],
                               !.preStatus = jobs[id].status, !.preThumb = jobs[id].thumb_media_id]]
  /\ nCalls' = nCalls + 1
  /\ UNCHANGED <<jobs, covers, thumbCache, contentCache, thumbRuns, tokenCache, now, engineCall>>

NOT_READY == "Job not ready for publishing. Current Status: "

\* the status test of the pre-flight checks
ReadyAnyUnpublished(st) == st # PUBLISHED
ReadyForPublishing(st) == st = PREVIEW_READY

\* the metadata and thumbnail tests of the pre-flight checks: the error they
\* raise, or NoExc
PreflightNoTitleCheck(mem) ==
  IF ~mem.metadata.isDict THEN Exc(ValueError, <<"Cannot publish job: Metadata is invalid or missing.">>)
  ELSE IF mem.thumb_media_id = ""
  THEN Exc(ValueError, <<"Cannot publish job: WeChat thumbnail ID (thumb_media_id) is missing.">>)
  ELSE NoExc

PreflightData(mem) ==
  IF ~mem.metadata.isDict THEN Exc(ValueError, <<"Cannot publish job: Metadata is invalid or missing.">>)
  ELSE IF Falsy(mem.metadata.title)
  THEN Exc(ValueError, <<"Cannot publish job: Article 'title' is missing or empty in metadata.">>)
  ELSE IF mem.thumb_media_id = ""
  THEN Exc(ValueError, <<"Cannot publish job: WeChat thumbnail ID (thumb_media_id) is missing.">>)
  ELSE NoExc

\* Pre-flight checks, then job.status = PUBLISHING and the status update.
CP_Preflight(p) ==
  /\ calls[p].pc = "cp_preflight"
  /\ LET c == calls[p]
         st == c.mem.status
         reason == IF st = FAILED /\ c.mem.error_message # <<>>
                   THEN <<" (Reason: ">> \o c.mem.error_message \o <<")">> ELSE <<>>
     IN IF ~ReadyForPublishing(st)
        THEN ConfirmFail(p, c, Exc(ValueError, <<NOT_READY, StatusLabel(st)>> \o reason \o <<".">>))
        ELSE IF PreflightData(c.mem) # NoExc THEN ConfirmFail(p, c, PreflightData(c.mem))
        ELSE LET c2 == [c EXCEPT !.mem.status = PUBLISHING, !.pc = "cp_token"]
             IN /\ jobs' = [jobs EXCEPT ![c.job] = SavedRow(@, c2.mem, JOB_STATUS_UPDATE_FIELDS)]
                /\ calls' = [calls EXCEPT ![p] = c2]
  /\ UNCHANGED <<nCalls, covers, thumbCache, contentCache, thumbRuns, tokenCache, now, engineCall>>

\* payload_builder.build_draft_payload as called by the service (KeyError and
\* ValueError are re-raised as ValueError): the thumbnail id carried by the
\* payload, or the exception.
build_draft_payload(metadata, thumb_media_id) ==
  IF Falsy(metadata.title)
  THEN [exc |-> Exc(ValueError, <<"Payload building failed: 'title' key missing unexpectedly.">>), thumb |-> ""]
  ELSE IF thumb_media_id = ""
  THEN [exc |-> Exc(ValueError, <<"Payload building failed: thumb_media_id cannot be empty.">>), thumb |-> ""]
  ELSE IF metadata.digest = NONSTRING
  THEN [exc |-> Exc(OtherException, <<"'int' object has no attribute 'strip'">>), thumb |-> ""]
  ELSE [exc |-> NoExc, thumb |-> thumb_media_id]

CREDENTIALS_NOT_CONFIGURED == <<"WeChat credentials not configured.">>
NO_TOKEN_PUBLISHING == <<"Failed to get WeChat access token for publishing.">>

\* Credentials check, auth.get_access_token and the initial payload.
CP_Token(p) ==
  /\ calls[p].pc = "cp_token"
  /\ LET c == calls[p]
         cT == [c EXCEPT !.nToken = @ + 1]
         payload == build_draft_payload(c.mem.metadata, c.mem.thumb_media_id)
     IN \E credentials \in BOOLEAN, t \in TokenResults :
          IF ~credentials THEN ConfirmFail(p, c, Exc(ValueError, CREDENTIALS_NOT_CONFIGURED))
          ELSE IF t.exc # NoExc THEN ConfirmFail(p, cT, t.exc)
          ELSE IF t.token = "" THEN ConfirmFail(p, cT, Exc(RuntimeError, NO_TOKEN_PUBLISHING))
          ELSE IF payload.exc # NoExc THEN ConfirmFail(p, cT, payload.exc)
          ELSE /\ calls' = [calls EXCEPT ![p] =
                    [cT EXCEPT !.pc = "cp_submit", !.access_token = t.token,
                               !.current_thumb_media_id = c.mem.thumb_media_id,
                               !.payload_thumb = payload.thumb]]
               /\ jobs' = jobs
  /\ UNCHANGED <<nCalls, covers, thumbCache, contentCache, thumbRuns, tokenCache, now, engineCall>>


\* The errcode the except block of the submit loop detects for an exception
\* raised by add_draft (0 = None).  The exception carries no response, errcode
\* or code attribute and its first argument is a string, so only the test
\* "isinstance(e, RuntimeError) and '40007' in str(e)" can set it.
DetectErrcode(e) ==
  IF e.type = RuntimeError /\ Contains(e.msg, TEXT_40007) THEN THUMB_ERRCODE ELSE 0

\* the retry test of the submit loop
ShouldRetryUnbounded(errcode, attempt) == errcode = THUMB_ERRCODE
ShouldRetry(errcode, attempt) == errcode = THUMB_ERRCODE /\ attempt <= max_retries

PublishFailed(attempt, e) ==
  <<"Failed to publish draft to WeChat after ">> \o IntToText(attempt) \o <<" attempt(s). Last error: ">>
    \o e.msg \o <<" (Code: ">>
    \o (IF DetectErrcode(e) # 0 THEN IntToText(DetectErrcode(e)) ELSE <<"N/A">>) \o <<")">>

NO_FINAL_MEDIA_ID == <<"Publishing finished but final WeChat media ID was not obtained.">>

\* One iteration of the submit loop (or its exit by the loop condition):
\* wechat_api.add_draft and the classification of its failure.
CP_Submit(p) ==
  /\ calls[p].pc = "cp_submit"
  /\ IF calls[p].attempt > max_retries
     THEN ConfirmFail(p, calls[p], Exc(RuntimeError, NO_FINAL_MEDIA_ID))
     ELSE \E r \in DraftResponses :
       LET res == add_draft(r)
           c == [calls[p] EXCEPT !.attempt = @ + 1, !.nSubmit = @ + 1, !.submits = Append(@, r)]
       IN IF res.exc = NoExc
          THEN IF res.media_id = ""
               THEN ConfirmFail(p, c, Exc(RuntimeError, NO_FINAL_MEDIA_ID))
               ELSE /\ calls' = [calls EXCEPT ![p] = [c EXCEPT !.pc = "cp_success",
                                                               !.final_media_id = res.media_id]]
                    /\ jobs' = jobs
          ELSE IF ShouldRetry(DetectErrcode(res.exc), c.attempt)
          THEN /\ calls' = [calls EXCEPT ![p] = [c EXCEPT !.pc = "cp_reprocess"]]
               /\ jobs' = jobs
          ELSE ConfirmFail(p, c, Exc(RuntimeError, PublishFailed(c.attempt, res.exc)))
  /\ UNCHANGED <<nCalls, covers, thumbCache, contentCache, thumbRuns, tokenCache, now, engineCall>>

\* Retry path: locate and re-process the original cover image.
CP_Reprocess(p) ==
  /\ calls[p].pc = "cp_reprocess"
  /\ LET c == calls[p]
     IN \E coverIsFile \in BOOLEAN, fits \in BOOLEAN :
          IF c.mem.original_cover_image_path = ""
          THEN ConfirmFail(p, c, Exc(ValueError,
                 <<"Cannot retry thumb upload: original cover image path not found in job record.">>))
          ELSE IF ~coverIsFile
          THEN ConfirmFail(p, c, Exc(FileNotFoundError,
                 <<"Cannot retry thumb upload: original cover file not found">>))
          ELSE IF ~fits
          THEN ConfirmFail(p, c, Exc(RuntimeError, <<"Failed to re-process cover image during retry: ">> \o
                 <<"Failed to reduce image size below 64 KB after multiple attempts.">>))
          ELSE /\ calls' = [calls EXCEPT ![p] = [c EXCEPT !.pc = "cp_retry_token",
                                                          !.retry = Append(@, "reprocess")]]
               /\ jobs' = jobs
  /\ UNCHANGED <<nCalls, covers, thumbCache, contentCache, thumbRuns, tokenCache, now, engineCall>>

\* Retry path: auth.get_access_token again.
CP_RetryToken(p) ==
  /\ calls[p].pc = "cp_retry_token"
  /\ LET c == [calls[p] EXCEPT !.nToken = @ + 1]
     IN \E t \in TokenResults :
          IF t.exc # NoExc THEN ConfirmFail(p, c, t.exc)
          ELSE IF t.token = ""
          THEN ConfirmFail(p, c, Exc(RuntimeError, <<"Failed to get fresh WeChat token for retry.">>))
          ELSE /\ calls' = [calls EXCEPT ![p] = [c EXCEPT !.pc = "cp_reupload", !.access_token = t.token,
                                                          !.retry = Append(@, "token")]]
               /\ jobs' = jobs
  /\ UNCHANGED <<nCalls, covers, thumbCache, contentCache, thumbRuns, tokenCache, now, engineCall>>

\* What upload_thumb_media can produce in the retry path; one of its errors
\* quotes a response body that is no JSON, of any length.
INVALID_RESPONSE == <<"Invalid response from add_material: ", LONG_UPSTREAM>>
ThumbReuploads ==
  ThumbUploads \cup [exc : {Exc(RuntimeError, INVALID_RESPONSE)}, media_id : {""}]

\* Retry path: wechat_api.upload_thumb_media of the re-processed cover and
\* the update of the job's thumb_media_id.
CP_Reupload(p) ==
  /\ calls[p].pc = "cp_reupload"
  /\ LET c == [calls[p] EXCEPT !.nUpload = @ + 1]
     IN \E u \in ThumbReuploads :
          IF u.exc # NoExc
          THEN ConfirmFail(p, c, Exc(RuntimeError,
                 <<"Failed during thumbnail re-upload attempt: ">> \o u.exc.msg))
          ELSE IF u.media_id = ""
          THEN ConfirmFail(p, c, Exc(RuntimeError,
                 <<"Failed to re-upload permanent thumbnail during retry (API returned no ID).">>))
          ELSE LET c2 == [c EXCEPT !.mem.thumb_media_id = u.media_id,
                                   !.current_thumb_media_id = u.media_id,
                                   !.reupload_id = u.media_id, !.pc = "cp_cache",
                                   !.retry = @ \o <<"upload", "persist">>]
               IN /\ jobs' = [jobs EXCEPT ![c.job] = SavedRow(@, c2.mem, JOB_THUMB_UPDATE_FIELDS)]
                  /\ calls' = [calls EXCEPT ![p] = c2]
  /\ UNCHANGED <<nCalls, covers, thumbCache, contentCache, thumbRuns, tokenCache, now, engineCall>>

\* new_thumb_media_id, the id put into the cache after the re-upload
NewThumbStale(c) == c.preThumb
NewThumb(c) == c.reupload_id

\* the thumbnail id handed to build_draft_payload when the payload is rebuilt
RetryThumbStale(c) == c.preThumb
RetryThumb(c) == c.current_thumb_media_id

\* Retry path: cache update under the digest of the re-processed cover and
\* the rebuilt payload.
CP_CacheUpdate(p) ==
  /\ calls[p].pc = "cp_cache"
  /\ LET c == calls[p]
         payload == build_draft_payload(c.mem.metadata, RetryThumb(c))
     IN \E h \in {covers[c.job], NO_HASH} :
          LET c2 == [c EXCEPT !.retry = IF h # NO_HASH THEN Append(@, "cache") ELSE @]
          IN /\ thumbCache' = ThumbCacheSet(h, NewThumb(c))
             /\ IF payload.exc # NoExc
                THEN ConfirmFail(p, c2, Exc(ValueError, <<"Payload re-building failed during retry: ">> \o payload.exc.msg))
                ELSE /\ calls' = [calls EXCEPT ![p] = [c2 EXCEPT !.pc = "cp_submit",
                                                                 !.payload_thumb = payload.thumb,
                                                                 !.retry = Append(@, "payload")]]
                     /\ jobs' = jobs
  /\ UNCHANGED <<nCalls, covers, contentCache, thumbRuns, tokenCache, now, engineCall>>

PUBLISHED_MESSAGE == "Article placeholder published to WeChat drafts successfully."

\* Success case: the in-memory job becomes PUBLISHED and is saved with
\* JOB_PUBLISH_SUCCESS_FIELDS; the result is returned when the save succeeds.
CP_Success(p) ==
  /\ calls[p].pc = "cp_success"
  /\ LET c == [calls[p] EXCEPT !.mem.status = PUBLISHED,
                               !.mem.wechat_media_id = calls[p].final_media_id,
                               !.mem.error_message = <<>>,
                               !.published_at = TRUE]
     IN IF SaveAccepts(JOB_PUBLISH_SUCCESS_FIELDS)
        THEN /\ jobs' = [jobs EXCEPT ![c.job] = SavedRow(@, c.mem, JOB_PUBLISH_SUCCESS_FIELDS)]
             /\ calls' = [calls EXCEPT ![p] =
                  [c EXCEPT !.pc = "done", !.outcome = "returned",
                            !.result = [NoResult EXCEPT !.status = StatusLabel(c.mem.status),
                                                       !.wechat_media_id = c.final_media_id]]]
        ELSE ConfirmFail(p, c, Exc(ValueError, SAVE_ERROR))
  /\ UNCHANGED <<nCalls, covers, thumbCache, contentCache, thumbRuns, tokenCache, now, engineCall>>

\* ------------------------------------------- publishing_engine.wechat.auth
TOKEN_EXPIRY_BUFFER == 300
\* the clock is followed up to this time
MaxTime == 600
\* time that passes between two calls
Delays == {100, 200}
Tokens == {TOKEN, "ACCESS_TOKEN_2"}
AppIds == {"", "wx_app_id"}
AppSecrets == {"", "app_secret"}

\* What GET /cgi-bin/token can answer: a body with access_token and a numeric
\* expires_in, a body with access_token and an expires_in that is no number,
\* a body without these keys (a WeChat error body), or no usable answer.
NoResponse == [kind |-> "none", access_token |-> "", expires_in |-> 0]
TokenResponses ==
  [kind : {"ok"}, access_token : Tokens \cup {""}, expires_in : {300, 400, 7200}]
  \cup [kind : {"bad_expires_in", "errcode", "network"}, access_token : {""}, expires_in : {0}]

APP_CREDENTIALS_REQUIRED == <<"AppID and AppSecret must be provided.">>
TOKEN_NETWORK_ERROR == <<"Network error connecting to WeChat API: ", "connection refused">>

\* _token_cache["access_token"] and current_time < expires_at - TOKEN_EXPIRY_BUFFER
CacheFreshInclusive(cache, current_time) ==
  cache.access_token # "" /\ current_time <= cache.expires_at - TOKEN_EXPIRY_BUFFER
CacheFresh(cache, current_time) ==
  cache.access_token # "" /\ current_time < cache.expires_at - TOKEN_EXPIRY_BUFFER

\* auth.get_access_token at time current_time on the cache contents cache,
\* resp being what the remote side answers if it is asked: the exception or
\* the token returned, the number of requests sent, and the cache afterwards.
get_access_token(app_id, app_secret, cache, current_time, resp) ==
  IF app_id = "" \/ app_secret = ""
  THEN [exc |-> Exc(ValueError, APP_CREDENTIALS_REQUIRED), token |-> "", requests |-> 0, cache |-> cache]
  ELSE IF CacheFresh(cache, current_time)
  THEN [exc |-> NoExc, token |-> cache.access_token, requests |-> 0, cache |-> cache]
  ELSE CASE resp.kind = "ok" ->
              [exc |-> NoExc, token |-> resp.access_token, requests |-> 1,
               cache |-> [access_token |-> resp.access_token,
                          expires_at |-> current_time + resp.expires_in]]
         [] resp.kind = "network" ->
              [exc |-> Exc(RuntimeError, TOKEN_NETWORK_ERROR), token |-> "", requests |-> 1, cache |-> cache]
         [] resp.kind = "bad_expires_in" ->
              [exc |-> Exc(RuntimeError, <<TOKEN_UNEXPECTED, "unsupported operand type(s) for +">>),
               token |-> "", requests |-> 1, cache |-> cache]
         [] OTHER ->
              [exc |-> Exc(RuntimeError, <<TOKEN_UNEXPECTED>> \o TOKEN_ERROR),
               token |-> "", requests |-> 1, cache |-> cache]

\* One call of get_access_token with the module-level cache.
GetAccessToken ==
  /\ \E app_id \in AppIds, app_secret \in AppSecrets, resp \in TokenResponses :
       LET r == get_access_token(app_id, app_secret, tokenCache, now, resp)
       IN /\ tokenCache' = r.cache
          /\ engineCall' = [fn |-> "get_access_token", app_id |-> app_id, app_secret |-> app_secret,
                            current_time |-> now, cache |-> tokenCache,
                            response |-> IF r.requests = 1 THEN resp ELSE NoResponse,
                            result |-> r]
  /\ UNCHANGED <<nCalls, jobs, covers, thumbCache, contentCache, thumbRuns, calls, now>>

\* time passes
Tick ==
  /\ \E d \in Delays : now + d <= MaxTime /\ now' = now + d
  /\ UNCHANGED <<nCalls, jobs, covers, thumbCache, contentCache, thumbRuns, calls, tokenCache, engineCall>>

\* -------------------------------------------- publishing_engine.wechat.api
THUMB_SIZE_LIMIT == 65536
CONTENT_SIZE_LIMIT == 1048576
UPLOAD_THUMB_MEDIA == "upload_thumb_media"
UPLOAD_CONTENT_IMAGE == "upload_content_image"
UploadFns == {UPLOAD_THUMB_MEDIA, UPLOAD_CONTENT_IMAGE}

\* The file at the path handed to an upload function: whether a regular file
\* is there, the suffix of its name and its size in bytes.
Suffixes == {".jpg", ".jpeg", ".JPG", ".png", ".gif", ""}
FileSizes == {0, 65536, 65537, 1048576, 1048577}
UploadFiles == [is_file : BOOLEAN, suffix : Suffixes, size : FileSizes]

\* path.suffix.lower()
Lower(suffix) == IF suffix = ".JPG" THEN ".jpg" ELSE suffix

AllowedSuffixesAny(fn) == {".jpg", ".jpeg", ".png"}
AllowedSuffixes(fn) ==
  IF fn = UPLOAD_THUMB_MEDIA THEN {".jpg", ".jpeg"} ELSE {".jpg", ".jpeg", ".png"}

SizeLimit(fn) == IF fn = UPLOAD_THUMB_MEDIA THEN THUMB_SIZE_LIMIT ELSE CONTENT_SIZE_LIMIT

\* What happens once the file has passed validation: the file cannot be
\* opened (it vanished, or it cannot be read), the request gets no response,
\* or the response is an HTTP error, a WeChat error body, a body without the
\* expected key, or a body with it.
UploadReplies ==
  [kind : {"vanished", "unreadable", "connection_error", "http_error", "errcode", "no_key"}, value : {""}]
  \cup [kind : {"ok"}, value : {"", "MEDIA"}]

UploadUrl(fn) ==
  IF fn = UPLOAD_THUMB_MEDIA THEN "https://api.weixin.qq.com/cgi-bin/material/add_material"
  ELSE "https://api.weixin.qq.com/cgi-bin/media/uploadimg"

UploadNotFound(fn) ==
  IF fn = UPLOAD_THUMB_MEDIA THEN <<"Thumbnail image not found: ", "path">>
  ELSE <<"Content image not found: ", "path">>
UploadBadType(fn, suffix) ==
  IF fn = UPLOAD_THUMB_MEDIA THEN <<"Invalid thumbnail image type (", suffix, "). Must be JPG: ", "path">>
  ELSE <<"Invalid content image type (", suffix, "). Must be JPG or PNG: ", "path">>
UploadTooLarge(fn) ==
  IF fn = UPLOAD_THUMB_MEDIA THEN <<"Thumbnail image size (", "size", " KB) exceeds 64KB limit: ", "path">>
  ELSE <<"Content image size (", "size", " KB) exceeds 1MB limit: ", "path">>
UploadFailed(fn) ==
  IF fn = UPLOAD_THUMB_MEDIA THEN <<"Failed to upload thumbnail image ", "path">>
  ELSE <<"Failed to upload content image ", "path">>
UploadNoKey(fn) ==
  IF fn = UPLOAD_THUMB_MEDIA THEN <<"WeChat API did not return 'media_id' after thumb upload: ", "data">>
  ELSE <<"WeChat API did not return 'url' after image upload: ", "data">>

UploadRaises(type, msg, requests) == [exc |-> Exc(type, msg), value |-> "", requests |-> requests]

\* upload_thumb_media / upload_content_image: the exception or the value
\* returned, and the number of HTTP requests sent.
upload_media(fn, file, reply) ==
  IF ~file.is_file THEN UploadRaises(FileNotFoundError, UploadNotFound(fn), 0)
  ELSE IF Lower(file.suffix) \notin AllowedSuffixes(fn)
  THEN UploadRaises(ValueError, UploadBadType(fn, Lower(file.suffix)), 0)
  ELSE IF file.size > SizeLimit(fn) THEN UploadRaises(ValueError, UploadTooLarge(fn), 0)
  ELSE CASE reply.kind = "vanished" -> UploadRaises(FileNotFoundError, <<"No such file or directory: ", "path">>, 0)
         [] reply.kind = "unreadable" -> UploadRaises(RuntimeError, UploadFailed(fn), 0)
         [] reply.kind = "connection_error" -> UploadRaises(RuntimeError, UploadFailed(fn), 1)
         [] reply.kind = "http_error" ->
              UploadRaises(RuntimeError, <<"Network error during API call to ", UploadUrl(fn)>>, 1)
         [] reply.kind = "errcode" ->
              UploadRaises(RuntimeError, <<"WeChat API error (", UploadUrl(fn), "): ">>
                                           \o IntToText(OTHER_ERRCODE) \o <<" - ">> \o ERRMSG_PLAIN, 1)
         [] reply.kind = "no_key" -> UploadRaises(RuntimeError, UploadNoKey(fn), 1)
         [] OTHER -> [exc |-> NoExc, value |-> reply.value, requests |-> 1]

\* the upstream answers to POST /cgi-bin/draft/add, with those the service
\* model does not tell apart from a transport failure
AllDraftResponses ==
  DraftResponses
  \cup [kind : {"http_error", "no_media_id"}, errcode : {0}, errmsg : {<<>>}, media_id : {""}]

NoEngineResult == [exc |-> NoExc, value |-> "", requests |-> 0]

\* the calls of the api functions that are examined one by one
ApiCalls ==
  [fn : UploadFns, pc : {"called"}, file : UploadFiles, reply : UploadReplies, result : {NoEngineResult}]
  \cup [fn : {"add_draft"}, pc : {"called"}, response : AllDraftResponses, result : {NoEngineResult}]

\* the upload function named by the call runs
UploadMedia ==
  /\ engineCall.fn \in UploadFns /\ engineCall.pc = "called"
  /\ engineCall' = [engineCall EXCEPT !.pc = "returned",
                      !.result = upload_media(engineCall.fn, engineCall.file, engineCall.reply)]
  /\ UNCHANGED <<nCalls, jobs, covers, thumbCache, contentCache, thumbRuns, calls, tokenCache, now>>

\* wechat_api.add_draft runs
AddDraft ==
  /\ engineCall.fn = "add_draft" /\ engineCall.pc = "called"
  /\ LET r == add_draft(engineCall.response)
     IN engineCall' = [engineCall EXCEPT !.pc = "returned",
                         !.result = [exc |-> r.exc, value |-> r.media_id, requests |-> 1]]
  /\ UNCHANGED <<nCalls, jobs, covers, thumbCache, contentCache, thumbRuns, calls, tokenCache, now>>

\* ------------------------------------- publishing_engine.core.html_processor
\* A Markdown heading line "# ..." as the inline items after the marker: a
\* word, a blank, emphasised or strong text, or raw inline HTML that is a span
\* of class content.
MD_WORD == "Title"
MD_BLANK == " "
MD_EM == "*Emphasis*"
MD_STRONG == "**Strong**"
MD_RAW_SPAN == "<span class=content>Raw</span>"
MdMarkup == {MD_EM, MD_STRONG, MD_RAW_SPAN}
MdInline == {MD_WORD, MD_BLANK} \cup MdMarkup
\* inline items of a heading line
MaxInline == 3
HeadingLines == UNION {[1..k -> MdInline] : k \in 0..MaxInline}

\* the element an inline item becomes, and the text in it
MdTag(item) ==
  IF item = MD_EM THEN "em" ELSE IF item = MD_STRONG THEN "strong" ELSE "span.content"

InlineText(item) ==
  IF item = MD_EM THEN "Emphasis" ELSE IF item = MD_STRONG THEN "Strong"
  ELSE IF item = MD_RAW_SPAN THEN "Raw" ELSE item

\* HTML nodes: a text node with its text (words and blanks), or an element
\* with its child nodes
TextNode(pieces) == [tag |-> "#text", text |-> pieces, children |-> <<>>]
Element(tag, children) == [tag |-> tag, text |-> <<>>, children |-> children]

\* text that reaches the tree is added to the text node before it, if any
AppendText(nodes, piece) ==
  IF nodes # <<>> /\ nodes[Len(nodes)].tag = "#text"
  THEN [nodes EXCEPT ![Len(nodes)].text = @ \o <<piece>>]
  ELSE Append(nodes, TextNode(<<piece>>))

RECURSIVE LStrip(_)
LStrip(line) == IF line # <<>> /\ Head(line) = MD_BLANK THEN LStrip(Tail(line)) ELSE line
RECURSIVE RStrip(_)
RStrip(line) ==
  IF line # <<>> /\ line[Len(line)] = MD_BLANK THEN RStrip(SubSeq(line, 1, Len(line) - 1)) ELSE line

\* Markdown(...).convert of the inline items of a heading line (stripped of
\* blanks at both ends)
RECURSIVE md_inline(_, _)
md_inline(line, nodes) ==
  IF line = <<>> THEN nodes
  ELSE md_inline(Tail(line),
                 IF Head(line) \in MdMarkup
                 THEN Append(nodes, Element(MdTag(Head(line)), <<TextNode(<<InlineText(Head(line))>>)>>))
                 ELSE AppendText(nodes, Head(line)))

\* the h1 element that Markdown with the toc extension makes of the line
md_heading(line) == [attrs |-> {"id"}, contents |-> md_inline(RStrip(LStrip(line)), <<>>)]

\* _remove_heading_ids
remove_heading_ids(header) == [header EXCEPT !.attrs = @ \ {"id"}]

\* str(c) of a node, as a sequence of tags and text pieces
RECURSIVE NodesHtml(_)
NodeHtml(node) ==
  IF node.tag = "#text" THEN [i \in 1..Len(node.text) |-> [k |-> "text", v |-> node.text[i]]]
  ELSE <<[k |-> "open", v |-> node.tag]>> \o NodesHtml(node.children) \o <<[k |-> "close", v |-> node.tag]>>
\* content_html = ''.join(str(c) for c in header.contents)
NodesHtml(nodes) ==
  IF nodes = <<>> THEN <<>> ELSE NodeHtml(Head(nodes)) \o NodesHtml(Tail(nodes))

\* position of the first end tag among the tokens
FirstClose(tokens) == CHOOSE i \in 1..Len(tokens) : tokens[i].k = "close" /\ \A j \in 1..(i - 1) : tokens[j].k # "close"

\* BeautifulSoup(content_html, 'html.parser').contents, for inline elements
\* that hold text
RECURSIVE ParseHtml(_, _)
ParseHtml(tokens, nodes) ==
  IF tokens = <<>> THEN nodes
  ELSE IF Head(tokens).k = "text" THEN ParseHtml(Tail(tokens), AppendText(nodes, Head(tokens).v))
  ELSE LET n == FirstClose(tokens)
       IN ParseHtml(SubSeq(tokens, n + 1, Len(tokens)),
                    Append(nodes, Element(Head(tokens).v, ParseHtml(SubSeq(tokens, 2, n - 1), <<>>))))

\* isinstance(child, NavigableString) and not child.strip()
BlankString(child) == child.tag = "#text" /\ \A i \in 1..Len(child.text) : child.text[i] = MD_BLANK

\* the children appended to the content span
RECURSIVE ContentChildren(_)
ContentChildren(parsed) ==
  IF parsed = <<>> THEN <<>>
  ELSE IF BlankString(Head(parsed)) THEN ContentChildren(Tail(parsed))
  ELSE <<Head(parsed)>> \o ContentChildren(Tail(parsed))

\* _wrap_heading_content for one heading element
wrap_heading_content(header) ==
  IF \E i \in 1..Len(header.contents) : header.contents[i].tag = "span.content" THEN header
  ELSE LET content_html == NodesHtml(header.contents)
           parsed_content == ParseHtml(content_html, <<>>)
       IN [header EXCEPT !.contents =
             <<Element("span.prefix", <<>>),
               Element("span.content", ContentChildren(parsed_content)),
               Element("span.suffix", <<>>)>>]

NoHeader == [attrs |-> {}, contents |-> <<>>]

\* the heading lines that are rendered one by one
HtmlCalls == [fn : {"process_html_content"}, pc : {"called"}, line : HeadingLines, header : {NoHeader}]

\* html_body = md_processor.convert(md_content); soup = BeautifulSoup(html_body)
HP_Convert ==
  /\ engineCall.fn = "process_html_content" /\ engineCall.pc = "called"
  /\ engineCall' = [engineCall EXCEPT !.pc = "converted", !.header = md_heading(engineCall.line)]
  /\ UNCHANGED <<nCalls, jobs, covers, thumbCache, contentCache, thumbRuns, calls, tokenCache, now>>

\* _remove_heading_ids(soup)
HP_RemoveIds ==
  /\ engineCall.fn = "process_html_content" /\ engineCall.pc = "converted"
  /\ engineCall' = [engineCall EXCEPT !.pc = "ids_removed", !.header = remove_heading_ids(@)]
  /\ UNCHANGED <<nCalls, jobs, covers, thumbCache, contentCache, thumbRuns, calls, tokenCache, now>>

\* _wrap_heading_content(soup)
HP_Wrap ==
  /\ engineCall.fn = "process_html_content" /\ engineCall.pc = "ids_removed"
  /\ engineCall' = [engineCall EXCEPT !.pc = "wrapped", !.header = wrap_heading_content(@)]
  /\ UNCHANGED <<nCalls, jobs, covers, thumbCache, contentCache, thumbRuns, calls, tokenCache, now>>

\* ---------------------- html_processor._find_and_replace_local_images
\* The src of an <img>: a text whose leading tokens are a scheme and
\* directory parts, followed by the stem and the suffix of the file name; the
\* empty text stands for a missing or empty src.
MaxRefs == 3
RefStems == {<<"cat">>, <<"cat", "erpillar">>}
SrcPrefixes == {<<>>, <<"http://", "host/">>, <<"HTTPS://", "host/">>}
DATA_SRC == <<"data:", "image/png;base64,iVBORw0KGgo=">>
Srcs == {<<>>, DATA_SRC} \cup {pre \o stem \o <<".png">> : pre \in SrcPrefixes, stem \in RefStems}

\* LOCAL_IMAGE_SRC_PATTERN = re.compile(r"^(?!https?://|data:).+", re.IGNORECASE)
LowerScheme(tok) == IF tok = "HTTPS://" THEN "https://" ELSE tok
LocalSrcCaseSensitive(src) == src # <<>> /\ Head(src) \notin {"http://", "https://", "data:"}
LocalSrc(src) == src # <<>> /\ LowerScheme(Head(src)) \notin {"http://", "https://", "data:"}

\* Path(src).name, Path(src).stem and Path(src).suffix.lower()
RECURSIVE PathName(_)
PathName(src) ==
  IF src # <<>> /\ Head(src) \in {"http://", "HTTPS://", "host/"} THEN PathName(Tail(src)) ELSE src
HasSuffix(name) == name # <<>> /\ name[Len(name)] = ".png"
PathStem(src) ==
  LET name == PathName(src) IN IF HasSuffix(name) THEN SubSeq(name, 1, Len(name) - 1) ELSE name
PathSuffix(src) == IF HasSuffix(PathName(src)) THEN <<".png">> ELSE <<>>

\* _save_uploaded_file_locally: the content images sent along with a Markdown
\* file are saved in uploads/content_images as <stem>_<8 hex digits><ext>
SavedFile(stem) == [where |-> "central", saved_for |-> stem, name |-> stem \o <<"_", "1a2b3c4d", ".png">>]
CentralFiles == {SavedFile(stem) : stem \in RefStems}
\* the shared directory, in the order in which glob lists it
CentralListings ==
  {l \in UNION {[1..k -> CentralFiles] : k \in 0..Cardinality(CentralFiles)} :
     \A i, k \in DOMAIN l : i # k => l[i] # l[k]}

NoFile == [where |-> "none", saved_for |-> <<>>, name |-> <<>>]

\* (markdown_dir / src).resolve(strict=True).is_file(), rel being the stems
\* of the image files next to the Markdown file
RelativeFile(src, rel) ==
  IF \E stem \in rel : src = stem \o <<".png">>
  THEN [where |-> "md", saved_for |-> PathStem(src), name |-> src]
  ELSE NoFile

\* fnmatch of a file name against f"{src_stem}*{src_suffix}"
IsPrefix(a, b) == Len(a) <= Len(b) /\ SubSeq(b, 1, Len(a)) = a
IsSuffix(a, b) == Len(a) <= Len(b) /\ SubSeq(b, Len(b) - Len(a) + 1, Len(b)) = a
GlobMatches(name, stem, suffix) ==
  /\ Len(stem) + Len(suffix) <= Len(name)
  /\ IsPrefix(stem, name) /\ IsSuffix(suffix, name)

\* possible_matches[0] of central_image_dir.glob(f"{src_stem}*{src_suffix}")
RECURSIVE FirstMatch(_, _, _)
FirstMatch(listing, stem, suffix) ==
  IF listing = <<>> THEN NoFile
  ELSE IF GlobMatches(Head(listing).name, stem, suffix) THEN Head(listing)
  ELSE FirstMatch(Tail(listing), stem, suffix)

\* the path resolution strategy: relative to the Markdown file, then by file
\* name in the central directory
ResolvedImagePath(src, rel, central) ==
  LET r == RelativeFile(src, rel)
  IN IF r # NoFile THEN r ELSE FirstMatch(central, PathStem(src), PathSuffix(src))

\* the documents whose images are examined one by one
Imgs == UNION {[1..k -> Srcs] : k \in 0..MaxRefs}
RefCalls ==
  [fn : {"find_and_replace_local_images"}, imgs : Imgs, rel : SUBSET RefStems,
   central : CentralListings, pos : {1}, log : {<<>>}, srcs : {<<>>}]

\* One iteration of "for img in soup.find_all('img')": the src is skipped, or
\* its file is looked up and, when there is one, handed to image_uploader,
\* whose URL (if any) replaces the src.
HP_Image ==
  /\ engineCall.fn = "find_and_replace_local_images"
  /\ engineCall.pos <= Len(engineCall.imgs)
  /\ LET i == engineCall.pos
         src == engineCall.imgs[i]
         resolved_image_path == ResolvedImagePath(src, engineCall.rel, engineCall.central)
     IN \E wechat_url \in {"", CONTENT_URL} :
          IF ~LocalSrc(src) \/ resolved_image_path = NoFile
          THEN /\ wechat_url = ""
               /\ engineCall' = [engineCall EXCEPT !.pos = i + 1, !.srcs = Append(@, src)]
          ELSE engineCall' =
                 [engineCall EXCEPT !.pos = i + 1,
                                    !.log = Append(@, [img |-> i, file |-> resolved_image_path]),
                                    !.srcs = Append(@, IF wechat_url # "" THEN <<wechat_url>> ELSE src)]
  /\ UNCHANGED <<nCalls, jobs, covers, thumbCache, contentCache, thumbRuns, calls, tokenCache, now>>

\* --------------------------- publishing_engine.utils.image_processing
COVER_IMAGE_SIZE_LIMIT_KB == 64
DEFAULT_JPEG_QUALITY == 85
MIN_JPEG_QUALITY == 60
QUALITY_STEP == 5

\* Sizes in bytes of the input file and of what the encoder produces; the
\* limit of 64 KB is 65536 bytes.
OriginalSizes == {65536, 65537, 400000, 7000000}
EncodedSizes == {65536, 65537}
\* img.save(buffer, ...): the encoded size, or an error of the encoder
Encodings == [exc : {NoExc}, size : EncodedSizes] \cup {[exc |-> Exc(OtherException, <<"cannot write mode">>), size |-> 0]}
\* img.format of the opened file; "none" is a file Pillow cannot open
ImageFormats == {"JPEG", "PNG", "none"}

INPUT_PATH == "cover.jpg"
OUTPUT_PATH == "cover_optimized.jpg"
IMAGE_NOT_FOUND_AT == <<"Image file not found at: ", INPUT_PATH>>
FAILED_TO_PROCESS == "Failed to process image: "
FAILED_TO_REDUCE == <<"Failed to reduce image size below limit after multiple attempts.">>

\* buffer_size <= size_limit_bytes
FitsAlways(size, size_limit_kb) == TRUE
Fits(size, size_limit_kb) == size <= size_limit_kb * 1024

\* the integer square root of a number below a million
ISqrt(n) == CHOOSE r \in 0..1000 : r * r <= n /\ n < (r + 1) * (r + 1)

\* scale_factor = min((size_limit_bytes / original_size) ** 0.5, 0.95), in
\* thousandths
InitialScale(size_limit_kb, original_size) ==
  LET ratio == (size_limit_kb * 1024 * 1000) \div original_size
      root == ISqrt(ratio * 1000)
  IN IF root < 950 THEN root ELSE 950

NoEnsureResult == [exc |-> NoExc, path |-> ""]

\* the calls of ensure_image_size that are examined, with the default
\* quality settings; written is the size of the file at the output path (0
\* when there is none) and tries the attempts made so far
EnsureCalls ==
  [fn : {"ensure_image_size"}, pc : {"called"}, is_file : BOOLEAN, original_size : OriginalSizes,
   size_limit_kb : {COVER_IMAGE_SIZE_LIMIT_KB}, format : ImageFormats,
   current_quality : {DEFAULT_JPEG_QUALITY}, scale_factor : {0}, written : {0}, tries : {<<>>},
   result : {NoEnsureResult}]

\* an exception leaves the try block: FileNotFoundError is re-raised, any
\* other one is wrapped in ValueError
EnsureRaises(e) ==
  [engineCall EXCEPT !.pc = "raised",
     !.result = [exc |-> IF e.type = FileNotFoundError THEN e
                         ELSE Exc(ValueError, <<FAILED_TO_PROCESS>> \o e.msg),
                 path |-> ""]]

\* the buffer is written to output_path, which is returned
EnsureSaves(c, size) ==
  [c EXCEPT !.pc = "returned", !.written = size, !.result = [exc |-> NoExc, path |-> OUTPUT_PATH]]

\* The file test, the size test and Image.open.
EIS_Open ==
  /\ engineCall.fn = "ensure_image_size" /\ engineCall.pc = "called"
  /\ engineCall' =
       IF ~engineCall.is_file THEN EnsureRaises(Exc(FileNotFoundError, IMAGE_NOT_FOUND_AT))
       ELSE IF engineCall.original_size <= engineCall.size_limit_kb * 1024
       THEN [engineCall EXCEPT !.pc = "returned", !.result = [exc |-> NoExc, path |-> INPUT_PATH]]
       ELSE IF engineCall.format = "none"
       THEN EnsureRaises(Exc(OtherException, <<"cannot identify image file">>))
       ELSE [engineCall EXCEPT !.pc = IF engineCall.format = "JPEG" THEN "quality" ELSE "resize",
                               !.scale_factor = InitialScale(engineCall.size_limit_kb, engineCall.original_size)]
  /\ UNCHANGED <<nCalls, jobs, covers, thumbCache, contentCache, thumbRuns, calls, tokenCache, now>>

\* One test of "while current_quality >= min_quality" and, when it holds, one
\* save at the current quality.
EIS_Quality ==
  /\ engineCall.fn = "ensure_image_size" /\ engineCall.pc = "quality"
  /\ IF engineCall.current_quality >= MIN_JPEG_QUALITY
     THEN \E enc \in Encodings :
            LET c == [engineCall EXCEPT !.tries = Append(@, "quality")]
            IN engineCall' =
                 IF enc.exc # NoExc THEN EnsureRaises(enc.exc)
                 ELSE IF Fits(enc.size, c.size_limit_kb) THEN EnsureSaves(c, enc.size)
                 ELSE [c EXCEPT !.current_quality = @ - QUALITY_STEP]
     ELSE engineCall' = [engineCall EXCEPT !.pc = "resize"]
  /\ UNCHANGED <<nCalls, jobs, covers, thumbCache, contentCache, thumbRuns, calls, tokenCache, now>>

\* One test of "while scale_factor > 0.1" and, when it holds, one resize and
\* save; a ValueError of img.resize leaves the loop.
EIS_Resize ==
  /\ engineCall.fn = "ensure_image_size" /\ engineCall.pc = "resize"
  /\ IF engineCall.scale_factor > 100
     THEN \E resized \in BOOLEAN, enc \in Encodings :
            LET c == [engineCall EXCEPT !.tries = Append(@, "resize")]
            IN engineCall' =
                 IF ~resized THEN [c EXCEPT !.pc = "last"]
                 ELSE IF enc.exc # NoExc THEN EnsureRaises(enc.exc)
                 ELSE IF Fits(enc.size, c.size_limit_kb) THEN EnsureSaves(c, enc.size)
                 ELSE [c EXCEPT !.scale_factor = (@ * 9) \div 10]
     ELSE engineCall' = [engineCall EXCEPT !.pc = "last"]
  /\ UNCHANGED <<nCalls, jobs, covers, thumbCache, contentCache, thumbRuns, calls, tokenCache, now>>

\* Last resort: a JPEG save at minimum quality without resizing, when the
\* quality reduction was gone through; otherwise ValueError.
EIS_LastResort ==
  /\ engineCall.fn = "ensure_image_size" /\ engineCall.pc = "last"
  /\ IF engineCall.format = "JPEG" /\ engineCall.current_quality < MIN_JPEG_QUALITY
     THEN \E enc \in Encodings :
            LET c == [engineCall EXCEPT !.tries = Append(@, "min_quality")]
            IN engineCall' =
                 IF enc.exc # NoExc THEN EnsureRaises(enc.exc)
                 ELSE IF Fits(enc.size, c.size_limit_kb) THEN EnsureSaves(c, enc.size)
                 ELSE [EnsureRaises(Exc(ValueError, FAILED_TO_REDUCE)) EXCEPT !.tries = c.tries]
     ELSE engineCall' = EnsureRaises(Exc(ValueError, FAILED_TO_REDUCE))
  /\ UNCHANGED <<nCalls, jobs, covers, thumbCache, contentCache, thumbRuns, calls, tokenCache, now>>

\* ------------------------------------------------------------ behaviours
\* the steps of a running start_processing_job call
StartBody(p, docs) ==
  \/ SP_Processing(p) \/ SP_Files(p) \/ SP_Token(p) \/ SP_Thumb(p) \/ SP_Upload(p)
  \/ SP_Metadata(p) \/ SP_Render(p, docs) \/ SP_Preview(p)

\* the steps of a running confirm_and_publish_job call
ConfirmBody(p) ==
  \/ CP_Preflight(p) \/ CP_Token(p) \/ CP_Submit(p) \/ CP_Reprocess(p)
  \/ CP_RetryToken(p) \/ CP_Reupload(p) \/ CP_CacheUpdate(p) \/ CP_Success(p)

\* Service calls made one after the other.
Next == \E p \in SeqProcs : SP_Create(p) \/ StartBody(p, PlainDocuments) \/ CP_Load(p) \/ ConfirmBody(p)
Spec == Init /\ [][Next]_vars

\* A worker that starts jobs beside a worker that confirms them: a confirmation
\* can arrive while the job it names is still being processed.
NextOverlap ==
  \/ (nCalls < MaxOverlapCalls /\ SP_Create(1))
  \/ StartBody(1, PlainDocuments)
  \/ (nCalls < MaxOverlapCalls /\ CP_Load(2))
  \/ ConfirmBody(2)
SpecOverlap == Init /\ [][NextOverlap]_vars

\* Start runs one after another on Markdown bodies with up to MaxImages
\* local images.  The steps before rendering take one path: the cover digest
\* is computed, the thumbnail id is T1, the frontmatter carries title and
\* cover_image_path, and no step before the metadata step fails.
PlainPrefix ==
  \A j \in DOMAIN jobs :
    /\ jobs[j].thumb_media_id \in {"", "T1"}
    /\ \A p \in SeqProcs : calls[p].pc = "sp_thumb" => calls[p].cover_image_hash # NO_HASH
    /\ jobs[j].status = FAILED => jobs[j].metadata # NoMetadata
    /\ jobs[j].metadata # NoMetadata =>
         /\ jobs[j].metadata.title = <<"T", "i">>
         /\ jobs[j].metadata.cover_image_path # ABSENT
         /\ jobs[j].metadata.digest = ABSENT

NextImages ==
  \E p \in SeqProcs :
    \/ SP_Create(p)
    \/ SP_Processing(p)
    \/ SP_Files(p) /\ PlainPrefix'
    \/ SP_Token(p) /\ PlainPrefix'
    \/ SP_Thumb(p) /\ PlainPrefix'
    \/ SP_Upload(p) /\ PlainPrefix'
    \/ SP_Metadata(p) /\ PlainPrefix'
    \/ SP_Render(p, Documents)
    \/ SP_Preview(p)
SpecImages == Init /\ [][NextImages]_vars

\* Calls of get_access_token one after the other, as time passes.
NextToken == GetAccessToken \/ Tick
SpecToken == Init /\ [][NextToken]_vars

\* One call of a function of publishing_engine.wechat.api, on any input.
InitApi ==
  /\ nCalls = 0
  /\ jobs = <<>>
  /\ covers = <<>>
  /\ thumbCache = [d \in Digests |-> ""]
  /\ contentCache = [d \in ContentDigests |-> NO_ENTRY]
  /\ thumbRuns = <<>>
  /\ calls = [p \in AllProcs |-> IdleCall]
  /\ tokenCache = EmptyTokenCache
  /\ now = 0
  /\ engineCall \in ApiCalls
NextApi == UploadMedia \/ AddDraft
SpecApi == InitApi /\ [][NextApi]_vars

\* Two workers that run start_processing_job at the same time, on covers with
\* the same content.  Every step but the thumbnail upload takes its regular
\* path: the cover digest is computed, the frontmatter carries title and
\* cover_image_path, the body has no image, and only the upload can fail.
RacePrefix ==
  /\ \A p \in AllProcs : calls[p].pc = "sp_thumb" => calls[p].cover_image_hash # NO_HASH
  /\ \A j \in DOMAIN jobs :
       /\ jobs[j].status = FAILED => (thumbRuns[j].uploads = 1 /\ thumbRuns[j].thumb = "")
       /\ jobs[j].metadata # NoMetadata =>
            /\ jobs[j].metadata.title = <<"T", "i">>
            /\ jobs[j].metadata.cover_image_path # ABSENT
            /\ jobs[j].metadata.digest = ABSENT

NextRace ==
  \E p \in AllProcs :
    \/ SP_Create(p)
    \/ SP_Processing(p)
    \/ SP_Files(p) /\ RacePrefix'
    \/ SP_Token(p) /\ RacePrefix'
    \/ SP_Thumb(p)
    \/ SP_Upload(p)
    \/ SP_Metadata(p) /\ RacePrefix'
    \/ SP_Render(p, {<<>>}) /\ RacePrefix'
    \/ SP_Preview(p) /\ RacePrefix'
SpecRace == Init /\ [][NextRace]_vars

\* The rendering of one Markdown heading line, for any line.
InitHtml ==
  /\ nCalls = 0
  /\ jobs = <<>>
  /\ covers = <<>>
  /\ thumbCache = [d \in Digests |-> ""]
  /\ contentCache = [d \in ContentDigests |-> NO_ENTRY]
  /\ thumbRuns = <<>>
  /\ calls = [p \in AllProcs |-> IdleCall]
  /\ tokenCache = EmptyTokenCache
  /\ now = 0
  /\ engineCall \in HtmlCalls
NextHtml == HP_Convert \/ HP_RemoveIds \/ HP_Wrap
SpecHtml == InitHtml /\ [][NextHtml]_vars

\* Start runs one after another in which calculate_file_hash may fail on the
\* processed cover and on content images and the thumbnail upload may fail;
\* the other steps before rendering take one path, as in SpecImages.
HashPrefix ==
  \A j \in DOMAIN jobs :
    /\ jobs[j].thumb_media_id \in {"", "T1"}
    /\ jobs[j].status = FAILED => jobs[j].metadata # NoMetadata \/ thumbRuns[j].uploads = 1
    /\ jobs[j].metadata # NoMetadata =>
         /\ jobs[j].metadata.title = <<"T", "i">>
         /\ jobs[j].metadata.cover_image_path # ABSENT
         /\ jobs[j].metadata.digest = ABSENT

NextHash ==
  \E p \in SeqProcs :
    \/ SP_Create(p)
    \/ SP_Processing(p)
    \/ SP_Files(p) /\ HashPrefix'
    \/ SP_Token(p) /\ HashPrefix'
    \/ SP_Thumb(p) /\ HashPrefix'
    \/ SP_Upload(p) /\ HashPrefix'
    \/ SP_Metadata(p) /\ HashPrefix'
    \/ SP_Render(p, Documents)
    \/ SP_Preview(p)
SpecHash == Init /\ [][NextHash]_vars

\* Two official accounts and the token the remote side issues to each: the
\* answer to a token request carries the token of the account whose appid and
\* secret the request named.
Accounts == {"wx_app_id", "wx_other_app_id"}
AccountSecret(app_id) == <<"secret of ", app_id>>
AccountToken(app_id) == IF app_id = "wx_app_id" THEN TOKEN ELSE "ACCESS_TOKEN_2"
AccountResponses(app_id) ==
  {resp \in TokenResponses : resp.kind = "ok" => resp.access_token = AccountToken(app_id)}

\* One call of get_access_token with the credentials of one of the accounts
\* and the module-level cache.
GetAccountToken ==
  /\ \E app_id \in Accounts :
       \E resp \in AccountResponses(app_id) :
         LET r == get_access_token(app_id, AccountSecret(app_id), tokenCache, now, resp)
         IN /\ tokenCache' = r.cache
            /\ engineCall' = [fn |-> "get_access_token", app_id |-> app_id,
                              app_secret |-> AccountSecret(app_id),
                              current_time |-> now, cache |-> tokenCache,
                              response |-> IF r.requests = 1 THEN resp ELSE NoResponse,
                              result |-> r]
  /\ UNCHANGED <<nCalls, jobs, covers, thumbCache, contentCache, thumbRuns, calls, now>>

\* Calls of get_access_token for different accounts, as time passes.
NextAccounts == GetAccountToken \/ Tick
SpecAccounts == Init /\ [][NextAccounts]_vars

\* One job is taken through start_processing_job; then two workers call
\* confirm_and_publish_job on it at the same time.  The start run takes its
\* regular path, as in SpecRace.
NextConfirms ==
  \/ (jobs = <<>> /\ SP_Create(1))
  \/ SP_Processing(1)
  \/ (SP_Files(1) /\ RacePrefix')
  \/ (SP_Token(1) /\ RacePrefix')
  \/ SP_Thumb(1)
  \/ SP_Upload(1)
  \/ (SP_Metadata(1) /\ RacePrefix')
  \/ (SP_Render(1, {<<>>}) /\ RacePrefix')
  \/ (SP_Preview(1) /\ RacePrefix')
  \/ \E p \in AllProcs :
       \/ (CP_Load(p) /\ calls'[p].pc = "cp_preflight" /\ jobs[calls'[p].job].preview_html_path # "")
       \/ ConfirmBody(p)
SpecConfirms == Init /\ [][NextConfirms]_vars

\* The image pass of one document, for any document and any files.
InitRefs ==
  /\ nCalls = 0
  /\ jobs = <<>>
  /\ covers = <<>>
  /\ thumbCache = [d \in Digests |-> ""]
  /\ contentCache = [d \in ContentDigests |-> NO_ENTRY]
  /\ thumbRuns = <<>>
  /\ calls = [p \in AllProcs |-> IdleCall]
  /\ tokenCache = EmptyTokenCache
  /\ now = 0
  /\ engineCall \in RefCalls
NextRefs == HP_Image
SpecRefs == InitRefs /\ [][NextRefs]_vars

\* One call of ensure_image_size, for any file; its loops are run to their
\* end.
InitEnsure ==
  /\ nCalls = 0
  /\ jobs = <<>>
  /\ covers = <<>>
  /\ thumbCache = [d \in Digests |-> ""]
  /\ contentCache = [d \in ContentDigests |-> NO_ENTRY]
  /\ thumbRuns = <<>>
  /\ calls = [p \in AllProcs |-> IdleCall]
  /\ tokenCache = EmptyTokenCache
  /\ now = 0
  /\ engineCall \in EnsureCalls
NextEnsure == EIS_Open \/ EIS_Quality \/ EIS_Resize \/ EIS_LastResort
SpecEnsure == InitEnsure /\ [][NextEnsure]_vars /\ WF_vars(NextEnsure)

\* ================================================================ claims

\* C1: every finished start_processing_job call ends in exactly one of two
\* ways: it returned a non-empty preview URL and the job is persisted as
\* PREVIEW_READY, or it raised and the job is persisted as FAILED with a
\* non-empty error_message.
C1_StartOutcome ==
  \A p \in AllProcs :
    (calls[p].op = "start" /\ calls[p].pc = "done") =>
      LET c == calls[p]
          row == jobs[c.job]
          ready == /\ c.outcome = "returned"
                   /\ c.result.preview_url # ""
                   /\ row.status = PREVIEW_READY
          failed == /\ c.outcome = "raised"
                    /\ c.exc # NoExc
                    /\ row.status = FAILED
                    /\ row.error_message # <<>>
      IN (ready \/ failed) /\ ~(ready /\ failed)

\* a call that raised out of the rendering step, after the thumbnail and the
\* metadata had been stored on the job
C1_Witness ==
  \E p \in AllProcs :
    /\ calls[p].op = "start" /\ calls[p].pc = "done"
    /\ calls[p].outcome = "raised"
    /\ jobs[calls[p].job].status = FAILED
    /\ jobs[calls[p].job].thumb_media_id # ""
    /\ jobs[calls[p].job].metadata # NoMetadata

\* C2: a confirm_and_publish_job call that finds its job in any status other
\* than PREVIEW_READY makes no remote call (token, upload, draft) and ends by
\* raising the state-conflict ValueError that names the current status.
C2_ConfirmNotReady ==
  \A p \in AllProcs :
    (calls[p].op = "confirm" /\ calls[p].job # MISSING_ID /\ calls[p].preStatus # PREVIEW_READY) =>
      /\ calls[p].pc \in {"cp_preflight", "done"}
      /\ calls[p].nToken = 0 /\ calls[p].nUpload = 0 /\ calls[p].nSubmit = 0
      /\ calls[p].pc = "done" =>
           /\ calls[p].outcome = "raised"
           /\ calls[p].exc.type = ValueError
           /\ Contains(calls[p].exc.msg, <<NOT_READY, StatusLabel(calls[p].preStatus)>>)

\* a confirmation that arrived while the job was still being processed
C2_Witness ==
  \E p \in AllProcs :
    /\ calls[p].op = "confirm" /\ calls[p].pc = "done"
    /\ calls[p].job # MISSING_ID
    /\ calls[p].preStatus = PROCESSING
    /\ calls[p].outcome = "raised"

\* C3: when the first draft submission is refused with upstream code 40007
\* and the second one succeeds, the call returns with the job persisted as
\* PUBLISHED, the job's thumb_media_id is the id returned by the re-upload and
\* differs from the one the job had before the call, and the thumbnail was
\* re-uploaded exactly once.
C3_RetryThenPublished ==
  \A p \in AllProcs :
    (/\ calls[p].op = "confirm" /\ calls[p].pc = "done"
     /\ Len(calls[p].submits) = 2
     /\ calls[p].submits[1].kind = "errcode" /\ calls[p].submits[1].errcode = THUMB_ERRCODE
     /\ calls[p].submits[2].kind = "ok" /\ calls[p].submits[2].media_id # "") =>
      /\ calls[p].outcome = "returned"
      /\ jobs[calls[p].job].status = PUBLISHED
      /\ calls[p].nUpload = 1
      /\ jobs[calls[p].job].thumb_media_id = calls[p].reupload_id
      /\ calls[p].reupload_id # calls[p].preThumb

\* C4: one confirm_and_publish_job call submits the draft at most twice and
\* re-uploads the thumbnail at most once; when both submissions are refused
\* with code 40007 the call has submitted exactly twice, re-uploaded exactly
\* once, raised, and the job is persisted as FAILED.
C4_RetryBudget ==
  \A p \in AllProcs :
    calls[p].op = "confirm" =>
      /\ calls[p].nSubmit <= 2
      /\ calls[p].nUpload <= 1
      /\ (/\ calls[p].pc = "done"
          /\ Len(calls[p].submits) >= 2
          /\ \A i \in 1..2 : /\ calls[p].submits[i].kind = "errcode"
                             /\ calls[p].submits[i].errcode = THUMB_ERRCODE) =>
           /\ calls[p].nSubmit = 2
           /\ calls[p].nUpload = 1
           /\ calls[p].outcome = "raised"
           /\ jobs[calls[p].job].status = FAILED

\* a call whose two submissions were both refused with code 40007
C4_Witness ==
  \E p \in AllProcs :
    /\ calls[p].op = "confirm" /\ calls[p].pc = "done"
    /\ Len(calls[p].submits) = 2
    /\ \A i \in 1..2 : calls[p].submits[i].errcode = THUMB_ERRCODE
    /\ calls[p].nUpload = 1
    /\ jobs[calls[p].job].status = FAILED

\* C5: a first submission that fails with an upstream code other than 40007,
\* or with a transport error, is never retried: the call has submitted once,
\* re-uploaded nothing, raised, and left the job FAILED with an error text
\* (stored and raised) that contains the upstream message.
C5_OnlyThumbCodeRetries ==
  \A p \in AllProcs :
    (/\ calls[p].op = "confirm"
     /\ Len(calls[p].submits) >= 1
     /\ calls[p].submits[1].kind \in {"errcode", "transport"}
     /\ ~(calls[p].submits[1].kind = "errcode" /\ calls[p].submits[1].errcode = THUMB_ERRCODE)) =>
      /\ calls[p].nSubmit = 1
      /\ calls[p].nUpload = 0
      /\ calls[p].pc = "done"
      /\ calls[p].outcome = "raised"
      /\ jobs[calls[p].job].status = FAILED
      /\ Contains(jobs[calls[p].job].error_message, add_draft(calls[p].submits[1]).exc.msg)
      /\ Contains(calls[p].exc.msg, add_draft(calls[p].submits[1]).exc.msg)

\* C6: in the persisted row of every job, wechat_media_id is non-empty
\* exactly when the status is PUBLISHED.
C6_MediaIdIffPublished ==
  \A j \in DOMAIN jobs : (jobs[j].wechat_media_id # "") <=> (jobs[j].status = PUBLISHED)

\* a call has obtained a draft id from the remote side and has finished
C6_Witness ==
  \E p \in AllProcs :
    /\ calls[p].op = "confirm" /\ calls[p].pc = "done"
    /\ calls[p].final_media_id # ""
    /\ calls[p].mem.wechat_media_id = calls[p].final_media_id
    /\ jobs[calls[p].job].wechat_media_id = ""
    /\ jobs[calls[p].job].status # PUBLISHED

\* C7: a confirm_and_publish_job call whose draft submission succeeded has,
\* once finished, persisted the job as PUBLISHED with wechat_media_id equal to
\* the id the remote side returned and an empty error_message, has stamped
\* the publication time, and has returned the status label and that id.
C7_SuccessPersisted ==
  \A p \in AllProcs :
    (/\ calls[p].op = "confirm" /\ calls[p].pc = "done"
     /\ calls[p].final_media_id # "") =>
      /\ jobs[calls[p].job].status = PUBLISHED
      /\ jobs[calls[p].job].wechat_media_id = calls[p].final_media_id
      /\ jobs[calls[p].job].error_message = <<>>
      /\ calls[p].published_at
      /\ calls[p].outcome = "returned"
      /\ calls[p].result.status = StatusLabel(PUBLISHED)
      /\ calls[p].result.wechat_media_id = calls[p].final_media_id

\* C8: PUBLISHED and FAILED are terminal: no step of any later call changes
\* the persisted row (status, error_message, wechat_media_id, thumb_media_id
\* and the rest) of a job whose status is PUBLISHED or FAILED, and
\* start_processing_job only ever adds a new row.
C8_TerminalRowsFrozen ==
  [][\A j \in DOMAIN jobs :
       /\ j \in DOMAIN jobs'
       /\ jobs[j].status \in {PUBLISHED, FAILED} => jobs'[j] = jobs[j]]_vars

\* a confirmation has run on a job that was already FAILED, beside a second job
C8_Witness ==
  \E p \in AllProcs :
    /\ calls[p].op = "confirm" /\ calls[p].pc = "done"
    /\ calls[p].job # MISSING_ID
    /\ calls[p].preStatus = FAILED
    /\ jobs[calls[p].job].status = FAILED
    /\ Cardinality(DOMAIN jobs) = 2

\* C9: every change of a job's persisted status is PENDING->PROCESSING,
\* PROCESSING->PREVIEW_READY, PREVIEW_READY->PUBLISHING, PUBLISHING->PUBLISHED
\* or X->FAILED for a non-terminal X, and a new job starts as PENDING.
C9_StatusChain ==
  [][/\ \A j \in DOMAIN jobs :
          jobs'[j].status # jobs[j].status =>
            <<jobs[j].status, jobs'[j].status>> \in
              {<<PENDING, PROCESSING>>, <<PROCESSING, PREVIEW_READY>>,
               <<PREVIEW_READY, PUBLISHING>>, <<PUBLISHING, PUBLISHED>>}
              \cup ({PENDING, PROCESSING, PREVIEW_READY, PUBLISHING} \X {FAILED})
     /\ \A j \in DOMAIN jobs' \ DOMAIN jobs : jobs'[j].status = PENDING]_vars

\* a job that went through the chain up to PUBLISHING and was then failed by
\* its second refused submission
C9_Witness ==
  \E p \in AllProcs :
    /\ calls[p].op = "confirm" /\ calls[p].pc = "done"
    /\ calls[p].preStatus = PREVIEW_READY
    /\ calls[p].nSubmit = 2
    /\ jobs[calls[p].job].status = FAILED

\* C10: a job's persisted status becomes PUBLISHING only in a step after
\* which its thumb_media_id is non-empty and its metadata holds a non-empty
\* title; a confirm_and_publish_job call that loads a PREVIEW_READY job
\* lacking either never makes the job PUBLISHING, makes no remote call, and
\* ends by raising.
C10_PublishingNeedsThumbAndTitle ==
  /\ [][\A j \in DOMAIN jobs :
          (jobs[j].status # PUBLISHING /\ jobs'[j].status = PUBLISHING) =>
            /\ jobs'[j].thumb_media_id # ""
            /\ jobs'[j].metadata.isDict
            /\ ~Falsy(jobs'[j].metadata.title)]_vars
  /\ [](\A p \in AllProcs :
          (/\ calls[p].op = "confirm" /\ calls[p].preStatus = PREVIEW_READY
           /\ calls[p].pc # "cp_preflight"
           /\ \/ calls[p].preThumb = ""
              \/ ~calls[p].mem.metadata.isDict
              \/ Falsy(calls[p].mem.metadata.title)) =>
            /\ calls[p].pc = "done" /\ calls[p].outcome = "raised"
            /\ calls[p].nToken = 0 /\ calls[p].nUpload = 0 /\ calls[p].nSubmit = 0
            /\ jobs[calls[p].job].status = FAILED)

\* a confirmation refused because the PREVIEW_READY job has an empty title
C10_Witness ==
  \E p \in AllProcs :
    /\ calls[p].op = "confirm" /\ calls[p].pc = "done"
    /\ calls[p].preStatus = PREVIEW_READY
    /\ calls[p].preThumb # ""
    /\ Falsy(calls[p].mem.metadata.title)
    /\ calls[p].outcome = "raised"

\* C11: when two start runs follow one another on covers with the same
\* content, the digest is computed in both, the first run (the first one with
\* this digest) obtained its thumbnail and no publish retry has replaced that
\* thumbnail since, the remote thumbnail upload was called exactly once over
\* both runs: the second run made no upload call and stored the id the first
\* run had stored.
SameCoverRuns(j1, j2) ==
  /\ j1 < j2
  /\ thumbRuns[j1].hash # NO_HASH
  /\ thumbRuns[j1].hash = thumbRuns[j2].hash
  /\ thumbRuns[j1].hash = covers[j1]
  /\ thumbRuns[j2].hash = covers[j2]
  /\ \A j0 \in DOMAIN thumbRuns : j0 < j1 => thumbRuns[j0].hash # thumbRuns[j1].hash
  /\ thumbRuns[j1].thumb # ""
  /\ jobs[j1].thumb_media_id = thumbRuns[j1].thumb

C11_OneThumbUpload ==
  \A j1, j2 \in DOMAIN thumbRuns :
    SameCoverRuns(j1, j2) =>
      /\ thumbRuns[j1].uploads + thumbRuns[j2].uploads = 1
      /\ thumbRuns[j2].uploads = 0
      /\ thumbRuns[j2].thumb = thumbRuns[j1].thumb

C11_Witness ==
  \E j1, j2 \in DOMAIN thumbRuns :
    /\ SameCoverRuns(j1, j2)
    /\ thumbRuns[j1].uploads = 1
    /\ jobs[j2].status = PREVIEW_READY
    /\ jobs[j2].thumb_media_id = jobs[j1].thumb_media_id

\* C12: a start run that returns on a body with a local image found neither
\* next to the Markdown file nor in the uploads directory has left that
\* image's src as it was, has exactly one warning for it in its warning list,
\* and its job is PreviewReady.
WarningsFor(ws, i) == {k \in DOMAIN ws : Contains(ws[k], ImageName(i))}

C12_MissingImageWarned ==
  \A p \in SeqProcs :
    LET c == calls[p]
    IN (c.op = "start" /\ c.pc = "done" /\ c.outcome = "returned") =>
         \A i \in DOMAIN c.doc :
           ~c.doc[i].located =>
             /\ c.srcs[i] = LOCAL_SRC
             /\ Cardinality(WarningsFor(c.warnings, i)) = 1
             /\ jobs[c.job].status = PREVIEW_READY

\* C13: an image whose processing or upload fails (it was located and the
\* uploader gave no URL for it) keeps its src and has exactly one warning;
\* every image of the body is visited and an image that processes and
\* uploads without the cache is replaced; the run returns with the job
\* PreviewReady and the returned warnings have one entry per failed image.
FailedImages(c) == {i \in DOMAIN c.doc : c.doc[i].located /\ c.srcs[i] = LOCAL_SRC}
CleanImage(img) ==
  img.located /\ img.ensure = "ok" /\ img.is_file /\ img.digest = NO_HASH /\ img.upload.exc = NoExc
    /\ img.upload.url # ""

C13_PartialFailure ==
  \A p \in SeqProcs :
    LET c == calls[p]
    IN (c.op = "start" /\ c.rendered) =>
         /\ Len(c.srcs) = Len(c.doc)
         /\ \A i \in FailedImages(c) : Cardinality(WarningsFor(c.warnings, i)) = 1
         /\ \A i \in DOMAIN c.doc : CleanImage(c.doc[i]) => c.srcs[i] = c.doc[i].upload.url
         /\ c.pc = "sp_preview" => jobs[c.job].status = PROCESSING
         /\ (c.pc = "done" /\ c.outcome = "raised") => c.exc = Exc(RuntimeError, PREVIEW_WRITE_ERROR)
         /\ (c.pc = "done" /\ c.outcome = "returned") =>
              /\ jobs[c.job].status = PREVIEW_READY
              /\ Len(c.result.warnings) = Cardinality(FailedImages(c))

C13_Witness ==
  \E p \in SeqProcs :
    LET c == calls[p]
    IN /\ c.op = "start" /\ c.pc = "done" /\ c.outcome = "returned"
       /\ Len(c.doc) = 2
       /\ \E i, k \in DOMAIN c.doc :
            /\ c.doc[i].ensure = ValueError
            /\ c.doc[k].located /\ c.doc[k].upload.exc # NoExc /\ c.srcs[k] = LOCAL_SRC
       /\ Len(c.result.warnings) = 2

\* C20: the cache is advisory. For a body on which every upload that is
\* attempted succeeds, the image pass of a start run yields the warnings and
\* replaces the references that the same pass yields from an empty cache, and
\* leaves the job's status as it is.
EmptyContentCache == [d \in ContentDigests |-> NO_ENTRY]
UploadsSucceed(doc) == \A i \in DOMAIN doc : doc[i].upload.exc = NoExc /\ doc[i].upload.url # ""
Replaced(srcs) == {i \in DOMAIN srcs : srcs[i] # LOCAL_SRC}

C20_CacheAdvisory ==
  [][\A p \in SeqProcs :
       (calls[p].pc = "sp_render" /\ calls'[p].pc = "sp_preview" /\ UploadsSucceed(calls'[p].doc)) =>
         LET c == calls'[p]
             ref == find_and_replace_local_images(c.doc, 1, ImagePass(EmptyContentCache), c.access_token)
         IN /\ c.warnings = ref.warnings
            /\ Replaced(c.srcs) = Replaced(ref.srcs)
            /\ jobs'[c.job].status = jobs[c.job].status]_vars

\* C14: when a start or confirm call on an existing job has ended by raising,
\* the job's row is Failed with an error_message, and the message of the
\* error raised to the caller is the error_message stored on the job.  Stated
\* for the calls that did not find the job already Failed or Published.
C14_StoredErrorIsRaisedError ==
  \A p \in SeqProcs :
    LET c == calls[p]
    IN (c.pc = "done" /\ c.outcome = "raised" /\ c.job \in DOMAIN jobs
          /\ c.preStatus \notin {FAILED, PUBLISHED}) =>
         /\ jobs[c.job].status = FAILED
         /\ jobs[c.job].error_message # <<>>
         /\ c.exc.msg = jobs[c.job].error_message

\* C15: the step in which a confirm call, having loaded its job in a status
\* other than PreviewReady, ends: the row becomes Failed with the
\* state-conflict message and no other column changes, whatever the status.
ConflictStep(p) ==
  /\ calls[p].op = "confirm" /\ calls[p].pc = "cp_preflight"
  /\ calls[p].mem.status # PREVIEW_READY
  /\ calls'[p].pc = "done"

MarkedWithConflict(p) ==
  LET j == calls[p].job
  IN /\ jobs'[j] = [jobs[j] EXCEPT !.status = FAILED, !.error_message = calls'[p].exc.msg]
     /\ Contains(calls'[p].exc.msg, <<NOT_READY, StatusLabel(calls[p].mem.status)>>)

C15_ConflictMarksFailedAlways ==
  [][\A p \in AllProcs : ConflictStep(p) => MarkedWithConflict(p)]_vars

\* C15 as amended: a job loaded as Pending, Processing or Publishing is marked
\* Failed with the state-conflict message and keeps every other column; a job
\* loaded as Failed or Published keeps its whole row.
C15_ConflictFrame ==
  [][\A p \in AllProcs :
       ConflictStep(p) =>
         IF calls[p].mem.status \in {FAILED, PUBLISHED}
         THEN jobs'[calls[p].job] = jobs[calls[p].job]
         ELSE MarkedWithConflict(p)]_vars

C15_Witness ==
  \E p \in AllProcs :
    /\ calls[p].op = "confirm" /\ calls[p].pc = "done" /\ calls[p].outcome = "raised"
    /\ calls[p].preStatus \in {PENDING, PROCESSING}
    /\ jobs[calls[p].job].status = FAILED
    /\ jobs[calls[p].job].error_message = calls[p].exc.msg
    /\ jobs[calls[p].job].original_markdown_path # ""
    /\ calls[p].mem.original_markdown_path = ""

C18_DefaultTitleWarned ==
  \A p \in SeqProcs :
    LET c == calls[p]
    IN (c.op = "start" /\ c.pc = "done" /\ c.outcome = "returned" /\ c.title_defaulted) =>
         \E k \in DOMAIN c.result.warnings : Contains(c.result.warnings[k], TITLE_DEFAULTED)

\* C19: the metadata step fails the job exactly when the frontmatter is
\* malformed or the title is missing; a frontmatter that parses to a mapping
\* with a non-empty title gets past the metadata step, whatever its other
\* keys.
Malformed(fm) == fm.kind \in {"yaml_error", "not_dict"}
TitledMapping(fm) == fm.kind = "dict" /\ ~Falsy(fm.title)
FailedAtMetadata(c) ==
  c.pc = "done" /\ c.outcome = "raised" /\ c.mem.metadata = NoMetadata

C19_MetadataFailsOnlyWithoutTitle ==
  \A p \in SeqProcs :
    LET c == calls[p]
    IN (c.op = "start" /\ c.frontmatter.kind \notin {"unread", "missing_file", "unreadable"}) =>
         /\ TitledMapping(c.frontmatter) => ~FailedAtMetadata(c)
         /\ FailedAtMetadata(c) => Malformed(c.frontmatter) \/ Falsy(c.frontmatter.title)

\* the token call in hand found a token in the cache that was not yet within
\* the buffer of its expiry
FoundFreshToken ==
  /\ engineCall.cache.access_token # ""
  /\ engineCall.current_time < engineCall.cache.expires_at - 300

\* the token call in hand returned the cached token and asked nobody
ReturnedCachedToken ==
  /\ engineCall.result.exc = NoExc
  /\ engineCall.result.requests = 0
  /\ engineCall.result.token = engineCall.cache.access_token

\* the caching contract of get_access_token, for the call in hand
TokenContract ==
  /\ ReturnedCachedToken <=> FoundFreshToken
  /\ ~FoundFreshToken =>
       /\ engineCall.result.requests = 1
       /\ engineCall.response.kind = "ok" =>
            /\ engineCall.result.exc = NoExc
            /\ engineCall.result.token = engineCall.response.access_token
            /\ tokenCache = [access_token |-> engineCall.response.access_token,
                             expires_at |-> engineCall.current_time + engineCall.response.expires_in]
       /\ engineCall.response.kind # "ok" => engineCall.result.exc.type = RuntimeError
  /\ engineCall.result.exc # NoExc => tokenCache = engineCall.cache

\* C21 (as claimed): get_access_token returns the cached token without a
\* remote request if and only if a token is cached and the current time is
\* strictly earlier than its expiry minus 300 seconds; otherwise it sends one
\* token request and, on success, caches the new token with expiry request
\* time plus expires_in; a failed request raises and leaves the cache as it was.
C21_TokenCacheAlways ==
  engineCall.fn = "get_access_token" => TokenContract

\* C21 (amended): the same holds of every call that passes a non-empty app id
\* and app secret; a call without one of them raises ValueError, sends no
\* request and leaves the cache as it was.
C21_TokenCache ==
  engineCall.fn = "get_access_token" =>
    IF engineCall.app_id # "" /\ engineCall.app_secret # ""
    THEN TokenContract
    ELSE /\ engineCall.result.exc.type = ValueError
         /\ engineCall.result.requests = 0
         /\ tokenCache = engineCall.cache

\* a call with credentials found a fresh token and was served from the cache
C21_Witness ==
  /\ engineCall.fn = "get_access_token"
  /\ engineCall.app_id # "" /\ engineCall.app_secret # ""
  /\ FoundFreshToken
  /\ ReturnedCachedToken
  /\ engineCall.current_time > 0

\* the extensions and size ceilings the upload functions are to enforce
Disallowed(fn, suffix) ==
  IF fn = UPLOAD_THUMB_MEDIA THEN suffix \notin {".jpg", ".jpeg", ".JPG"}
  ELSE suffix \notin {".jpg", ".jpeg", ".JPG", ".png"}
Oversized(fn, size) ==
  IF fn = UPLOAD_THUMB_MEDIA THEN size > 64 * 1024 ELSE size > 1024 * 1024

\* C22: upload_thumb_media and upload_content_image send no HTTP request when
\* the file is missing, has a disallowed extension (thumbnail: .jpg/.jpeg,
\* content image: .jpg/.jpeg/.png, letter case ignored) or exceeds the size
\* ceiling (64 KB, 1 MB); they raise FileNotFoundError or ValueError instead.
C22_InvalidFileNotSent ==
  (engineCall.fn \in UploadFns /\ engineCall.pc = "returned") =>
    ((\/ ~engineCall.file.is_file
      \/ Disallowed(engineCall.fn, engineCall.file.suffix)
      \/ Oversized(engineCall.fn, engineCall.file.size))
     => /\ engineCall.result.requests = 0
        /\ engineCall.result.exc.type \in {FileNotFoundError, ValueError})

\* a JPEG thumbnail one byte over 64 KB was refused without a request
C22_Witness ==
  /\ engineCall.fn = UPLOAD_THUMB_MEDIA /\ engineCall.pc = "returned"
  /\ engineCall.file = [is_file |-> TRUE, suffix |-> ".jpg", size |-> 65537]
  /\ engineCall.result.exc.type = ValueError
  /\ engineCall.result.requests = 0

\* C23: add_draft returns a draft id only for a response with errcode 0 that
\* contains media_id; for a response with a non-zero errcode it raises an
\* error whose message contains the upstream errcode and errmsg unchanged, and
\* the pipeline's test on that error finds code 40007 exactly when the
\* upstream errcode is 40007.
C23_DraftErrorSurfaced ==
  (engineCall.fn = "add_draft" /\ engineCall.pc = "returned") =>
    LET r == engineCall.response
        e == engineCall.result.exc
    IN /\ e = NoExc => (r.kind = "ok" /\ r.errcode = 0 /\ engineCall.result.value = r.media_id)
       /\ r.errcode # 0 =>
            /\ e.type = RuntimeError
            /\ Contains(e.msg, IntToText(r.errcode) \o <<" - ">> \o r.errmsg)
            /\ (DetectErrcode(e) = THUMB_ERRCODE) <=> (r.errcode = THUMB_ERRCODE)

\* the start run of job j is over
StartOver(j) == jobs[j].status \in {PREVIEW_READY, FAILED}

\* the ids that thumbnail uploads of start runs returned
ReturnedThumbIds ==
  {thumbRuns[j].thumb : j \in {k \in DOMAIN jobs : thumbRuns[k].uploads = 1 /\ thumbRuns[k].thumb # ""}}

RECURSIVE VisibleText(_)
VisibleText(nodes) ==
  IF nodes = <<>> THEN <<>>
  ELSE (IF Head(nodes).tag = "#text" THEN Head(nodes).text ELSE VisibleText(Head(nodes).children))
         \o VisibleText(Tail(nodes))

\* the text of a heading line without its markup
RECURSIVE LineText(_)
LineText(line) == IF line = <<>> THEN <<>> ELSE <<InlineText(Head(line))>> \o LineText(Tail(line))

\* the inline elements of a heading line or of a node list, in order
RECURSIVE LineElements(_)
LineElements(line) ==
  IF line = <<>> THEN <<>>
  ELSE (IF Head(line) \in MdMarkup THEN <<MdTag(Head(line))>> ELSE <<>>) \o LineElements(Tail(line))
RECURSIVE NodeElements(_)
NodeElements(nodes) ==
  IF nodes = <<>> THEN <<>>
  ELSE (IF Head(nodes).tag = "#text" THEN <<>> ELSE <<Head(nodes).tag>>) \o NodeElements(Tail(nodes))

\* what the heading holds between the prefix and the suffix span, or all of
\* it when the heading was left as it was
HeadingContent(header) ==
  IF header.contents # <<>> /\ header.contents[1].tag = "span.prefix"
  THEN header.contents[2].children
  ELSE header.contents

\* C25: the heading element rendered from a Markdown heading line shows
\* exactly the text of the line: wrapping its content in prefix, content and
\* suffix spans and removing the id attribute neither adds, removes nor
\* reorders text or inline elements of the heading.
C25_HeadingTextKept ==
  (engineCall.fn = "process_html_content" /\ engineCall.pc = "wrapped") =>
    /\ VisibleText(engineCall.header.contents) = LineText(RStrip(LStrip(engineCall.line)))
    /\ NodeElements(HeadingContent(engineCall.header)) = LineElements(engineCall.line)
    /\ "id" \notin engineCall.header.attrs

\* invocation p has issued the second draft submission of its call
SecondSubmission(p) == calls[p].op = "confirm" /\ calls[p].nSubmit = 2

\* what every second submission rests on, whatever the order of the steps:
\* the id the re-upload returned is on the job row and in the payload, and
\* when the digest of the re-processed cover was computed the cache entry of
\* that digest holds the id
RetryEffects(p) ==
  LET c == calls[p]
  IN /\ c.reupload_id # ""
     /\ c.payload_thumb = c.reupload_id
     /\ jobs[c.job].thumb_media_id = c.reupload_id
     /\ \A i \in 1..Len(c.retry) : c.retry[i] = "cache" => thumbCache[covers[c.job]] = c.reupload_id

\* C26 (as claimed): before the second draft submission the retry steps
\* happen in this order: a token is obtained again, the original cover is
\* re-optimised and re-uploaded, the new id is persisted on the job, the cache
\* entry of the cover's digest is set, the payload is rebuilt; the second
\* submission carries the new id.
C26_RetryTokenFirst ==
  \A p \in SeqProcs :
    SecondSubmission(p) =>
      /\ calls[p].retry \in {<<"token", "reprocess", "upload", "persist", "cache", "payload">>,
                             <<"token", "reprocess", "upload", "persist", "payload">>}
      /\ RetryEffects(p)

\* C26 (amended): the original cover is re-optimised first and the token is
\* obtained after that; the other steps follow in the order claimed.
C26_RetryOrder ==
  \A p \in SeqProcs :
    SecondSubmission(p) =>
      /\ calls[p].retry \in {<<"reprocess", "token", "upload", "persist", "cache", "payload">>,
                             <<"reprocess", "token", "upload", "persist", "payload">>}
      /\ RetryEffects(p)

\* a second submission went out with a re-uploaded id that differs from the
\* id the job had, after the cache entry had been set
C26_Witness ==
  \E p \in SeqProcs :
    /\ SecondSubmission(p)
    /\ calls[p].retry = <<"reprocess", "token", "upload", "persist", "cache", "payload">>
    /\ calls[p].reupload_id # calls[p].preThumb
    /\ calls[p].payload_thumb = calls[p].reupload_id

\* the confirm call of invocation p is over; its first submission was refused
\* with what the pipeline takes for code 40007, and the retry then failed while
\* the cover was located and re-processed or while it was re-uploaded
RetryFailed(p) ==
  LET c == calls[p]
  IN /\ c.op = "confirm" /\ c.pc = "done" /\ c.outcome = "raised"
     /\ c.nSubmit >= 1
     /\ DetectErrcode(add_draft(c.submits[1]).exc) = THUMB_ERRCODE
     /\ c.retry \in {<<>>, <<"reprocess", "token">>}
     /\ c.retry = <<>> => c.nToken = 1
     /\ c.retry = <<"reprocess", "token">> => c.nUpload = 1

UploadedNow(p, id) ==
  /\ calls[p].pc \in {"sp_upload", "cp_reupload"}
  /\ calls'[p].nUpload = calls[p].nUpload + 1
  /\ calls'[p].outcome # "raised"
  /\ id # "" /\ calls'[p].mem.thumb_media_id = id

\* in this step a thumbnail upload of invocation p failed or returned no id
UploadFailedNow(p) ==
  /\ calls[p].pc \in {"sp_upload", "cp_reupload"}
  /\ calls'[p].nUpload = calls[p].nUpload + 1
  /\ calls'[p].outcome = "raised"

\* C28: the thumbnail cache and a job's thumb_media_id are only ever written
\* with an id that a successful thumbnail upload returned (in the same step,
\* or earlier and then read from the cache or kept as the re-uploaded id); a
\* step in which an upload fails or returns no id changes neither the cache
\* nor the job's thumb_media_id.
C28_ThumbIdsComeFromUploads ==
  [][/\ \A h \in Digests :
          thumbCache'[h] # thumbCache[h] =>
            \E p \in AllProcs :
              \/ calls[p].cover_image_hash = h /\ UploadedNow(p, thumbCache'[h])
              \/ /\ calls[p].pc = "cp_cache" /\ calls[p].reupload_id # ""
                 /\ thumbCache'[h] = calls[p].reupload_id
     /\ \A j \in DOMAIN jobs :
          jobs'[j].thumb_media_id # jobs[j].thumb_media_id =>
            \E p \in AllProcs :
              /\ calls[p].job = j
              /\ \/ UploadedNow(p, jobs'[j].thumb_media_id)
                 \/ /\ calls[p].pc = "sp_thumb" /\ calls[p].cover_image_hash # NO_HASH
                    /\ thumbCache[calls[p].cover_image_hash] # ""
                    /\ jobs'[j].thumb_media_id = thumbCache[calls[p].cover_image_hash]
     /\ \A p \in AllProcs :
          UploadFailedNow(p) =>
            /\ thumbCache' = thumbCache
            /\ jobs'[calls[p].job].thumb_media_id = jobs[calls[p].job].thumb_media_id
     /\ \A j \in DOMAIN jobs' \ DOMAIN jobs : jobs'[j].thumb_media_id = ""]_vars

\* a re-upload failed: the job keeps the id it had and the cache keeps its entry
C28_Witness ==
  \E p \in SeqProcs :
    /\ calls[p].op = "confirm" /\ calls[p].pc = "done" /\ calls[p].outcome = "raised"
    /\ calls[p].retry = <<"reprocess", "token">> /\ calls[p].nUpload = 1
    /\ calls[p].preThumb # ""
    /\ jobs[calls[p].job].thumb_media_id = calls[p].preThumb
    /\ thumbCache[covers[calls[p].job]] = calls[p].preThumb

\* the uploader callback gets as far as hashing the file of this image
Hashable(img) == img.located /\ img.ensure = "ok" /\ img.is_file

\* the images of a document whose digest cannot be computed
Undigested(doc) == {i \in 1..Len(doc) : Hashable(doc[i]) /\ doc[i].digest = NO_HASH}

\* the digests of a document for which the shared cache has no entry
MissedDigests(doc, cache) ==
  {d \in ContentDigests : ~cache[d].hit /\ \E i \in 1..Len(doc) : Hashable(doc[i]) /\ doc[i].digest = d}

\* C29: when the digest of the processed cover cannot be computed, the start
\* run leaves the thumbnail cache alone and takes nothing from it, uploads
\* the thumbnail exactly once and goes on; the job fails at that point only
\* when the upload fails.  A content image without digest is uploaded once
\* per reference, takes its src from that upload alone and leaves the
\* content-image cache alone.
C29_HashFailureBypassesCache ==
  [][\A p \in SeqProcs :
       LET c == calls[p]
           c2 == calls'[p]
       IN /\ (c.pc = "sp_token" /\ c2.pc = "sp_thumb") =>
               jobs' = jobs /\ thumbCache' = thumbCache
          /\ (c.pc = "sp_thumb" /\ c.cover_image_hash = NO_HASH) =>
               c2.pc = "sp_upload" /\ thumbCache' = thumbCache /\ jobs' = jobs
          /\ (c.pc = "sp_upload" /\ c.cover_image_hash = NO_HASH) =>
               /\ thumbCache' = thumbCache
               /\ c2.nUpload = 1 /\ thumbRuns'[c.job].uploads = 1
               /\ (c2.outcome = "raised") = (thumbRuns'[c.job].thumb = "")
               /\ c2.outcome # "raised" =>
                    /\ c2.pc = "sp_metadata" /\ jobs'[c.job].status # FAILED
                    /\ jobs'[c.job].thumb_media_id = thumbRuns'[c.job].thumb
          /\ (c.pc = "sp_render" /\ c2.rendered) =>
               /\ c2.outcome # "raised" /\ jobs'[c.job].status # FAILED
               /\ c2.nContentUpload =
                    Cardinality(Undigested(c2.doc)) + Cardinality(MissedDigests(c2.doc, contentCache))
               /\ \A i \in Undigested(c2.doc) :
                    c2.srcs[i] = IF c2.doc[i].upload.exc = NoExc /\ c2.doc[i].upload.url # ""
                                 THEN c2.doc[i].upload.url ELSE LOCAL_SRC
               /\ \A d \in ContentDigests :
                    contentCache'[d] # contentCache[d] => d \in MissedDigests(c2.doc, contentCache)]_vars

\* a run without cover digest went through with one thumbnail upload while
\* the thumbnail cache had an entry, and its document had an image without
\* digest while the content-image cache had an entry
C29_Witness ==
  \E p \in SeqProcs :
    /\ calls[p].pc = "done" /\ calls[p].outcome = "returned" /\ calls[p].op = "start"
    /\ calls[p].cover_image_hash = NO_HASH
    /\ thumbRuns[calls[p].job].uploads = 1
    /\ \E h \in Digests : thumbCache[h] # ""
    /\ Undigested(calls[p].doc) # {}
    /\ calls[p].nContentUpload = Cardinality(Undigested(calls[p].doc))
    /\ \E d \in ContentDigests : contentCache[d].hit

\* the upload of image i of the document was attempted in this pass and
\* failed: i is the first reference with its digest, the shared cache had no
\* entry for it, and upload_content_image raises or returns no URL
FailedInRun(doc, i, cache) ==
  /\ Hashable(doc[i]) /\ doc[i].digest # NO_HASH
  /\ ~cache[doc[i].digest].hit
  /\ \A k \in 1..(i - 1) : ~(Hashable(doc[k]) /\ doc[k].digest = doc[i].digest)
  /\ (doc[i].upload.exc # NoExc \/ doc[i].upload.url = "")

\* the digests of the images of a document
DocDigests(doc) == {doc[i].digest : i \in {k \in 1..Len(doc) : Hashable(doc[k])}} \ {NO_HASH}

\* C30: within one start run, after the upload of a content image with digest
\* d failed, every later reference to an image with digest d keeps its local
\* src, gets the warning "Image skipped (previous failure)" and causes no
\* further upload call; the uploads of the run for images with a digest are
\* at most one per distinct digest.
C30_FailedUploadNotRepeated ==
  [][\A p \in SeqProcs :
       LET c2 == calls'[p]
           doc == c2.doc
       IN (calls[p].pc = "sp_render" /\ c2.rendered) =>
            /\ \A i \in 1..Len(doc) :
                 FailedInRun(doc, i, contentCache) =>
                   /\ contentCache'[doc[i].digest].hit /\ contentCache'[doc[i].digest].url = ""
                   /\ \A k \in (i + 1)..Len(doc) :
                        doc[k].located /\ doc[k].digest = doc[i].digest =>
                          /\ c2.srcs[k] = LOCAL_SRC
                          /\ \E w \in 1..Len(c2.warnings) : c2.warnings[w] = IMAGE_SKIPPED(k)
            /\ c2.nContentUpload - Cardinality(Undigested(doc)) <= Cardinality(DocDigests(doc))
            /\ (\E i \in 1..Len(doc) : FailedInRun(doc, i, contentCache)) =>
                 Cardinality({w \in 1..Len(c2.warnings) :
                                \E k \in 1..Len(doc) : c2.warnings[w] = IMAGE_SKIPPED(k)})
                   = Cardinality({k \in 1..Len(doc) : Hashable(doc[k]) /\ doc[k].digest # NO_HASH}) - 1]_vars

\* the first of two references with the same digest failed to upload, the
\* second one would have uploaded and was skipped with a warning
C30_Witness ==
  \E p \in SeqProcs :
    /\ calls[p].rendered /\ Len(calls[p].doc) = 2
    /\ calls[p].doc[1].digest # NO_HASH /\ calls[p].doc[2].digest = calls[p].doc[1].digest
    /\ calls[p].doc[1].upload.exc # NoExc /\ calls[p].doc[2].upload.exc = NoExc
    /\ calls[p].nContentUpload = 1
    /\ calls[p].warnings = <<IMAGE_UPLOAD_ERROR(1, RuntimeError), IMAGE_SKIPPED(2)>>
    /\ calls[p].srcs = <<LOCAL_SRC, LOCAL_SRC>>

\* C38: a token returned by get_access_token(app_id, app_secret) is the token
\* the remote side issued to a request with that app_id and app_secret; the
\* cache never serves a token fetched for other credentials.
C38_TokenOfOwnCredentials ==
  (engineCall.fn = "get_access_token" /\ engineCall.result.exc = NoExc) =>
    engineCall.result.token = AccountToken(engineCall.app_id)

\* C37: a job whose stored status is PREVIEW_READY, PUBLISHING or PUBLISHED
\* has a stored preview_html_path and a stored thumb_media_id that are not
\* empty.
C37_ReadyJobsHavePreviewAndThumb ==
  \A j \in DOMAIN jobs :
    jobs[j].status \in {PREVIEW_READY, PUBLISHING, PUBLISHED} =>
      jobs[j].preview_html_path # "" /\ jobs[j].thumb_media_id # ""

\* a job that its start run left at PREVIEW_READY is PUBLISHING, with the
\* preview path stored, while its confirm call is under way
C37_Witness ==
  /\ calls[2].op = "confirm" /\ calls[2].pc \notin {"idle", "done"}
  /\ calls[1].op = "start" /\ calls[1].pc = "done" /\ calls[1].job = calls[2].job
  /\ jobs[calls[2].job].status = PUBLISHING
  /\ jobs[calls[2].job].preview_html_path = PREVIEW_PATH

\* invocation p is a confirm call that has stored PUBLISHING on its job and
\* has not ended yet
PastPreflight(p) ==
  calls[p].op = "confirm" /\ calls[p].pc \notin {"idle", "cp_preflight", "done"}

\* C36: when a confirm call that moved its job to PUBLISHING ends, by
\* returning or by raising, the stored status of the job is PUBLISHED or
\* FAILED.
C36_EndsPublishedOrFailed ==
  [][\A p \in SeqProcs :
       (PastPreflight(p) /\ calls'[p].pc = "done") =>
         jobs'[calls[p].job].status \in {PUBLISHED, FAILED}]_vars

\* the remote side accepted a draft submission of confirm call p
DraftCreated(p) == calls[p].op = "confirm" /\ calls[p].final_media_id # ""

\* C34: of two confirm calls on the same job that both found it
\* PREVIEW_READY, the remote draft submission succeeds for at most one, so
\* that at most one draft is created for the job.
C34_AtMostOneDraft ==
  \A p, q \in AllProcs :
    (p # q /\ calls[p].job = calls[q].job
     /\ calls[p].preStatus = PREVIEW_READY /\ calls[q].preStatus = PREVIEW_READY) =>
      ~(DraftCreated(p) /\ DraftCreated(q))

\* C35: under overlapping confirm calls on one job, a stored PUBLISHED is
\* never overwritten, and a stored FAILED is never replaced by PUBLISHED.
C35_PublishedIsFinal ==
  [][\A j \in DOMAIN jobs :
       /\ jobs[j].status = PUBLISHED => jobs'[j].status = PUBLISHED
       /\ jobs[j].status = FAILED => jobs'[j].status # PUBLISHED]_vars

\* no job is ever stored as PUBLISHED: the success save is rejected
C35_PublishedNeverStored ==
  \A j \in DOMAIN jobs : jobs[j].status # PUBLISHED

\* the src starts with http://, https:// or data: (in any case of letters)
RemoteSrc(src) == src # <<>> /\ Head(src) \in {"http://", "https://", "HTTPS://", "data:"}

\* a file for the src exists next to the Markdown file or under a matching
\* name in the shared directory
Located(src, rel, central) ==
  \/ \E stem \in rel : src = stem \o <<".png">>
  \/ \E k \in DOMAIN central : GlobMatches(central[k].name, PathStem(src), PathSuffix(src))

\* the images for which the uploader has been invoked so far
Invoked == {engineCall.log[k].img : k \in DOMAIN engineCall.log}

\* the invocations so far happened one after the other in document order,
\* each image at most once, none for a remote or data src
InvokedInOrder ==
  /\ \A k \in DOMAIN engineCall.log :
       /\ engineCall.log[k].img < engineCall.pos
       /\ k > 1 => engineCall.log[k - 1].img < engineCall.log[k].img
       /\ ~RemoteSrc(engineCall.imgs[engineCall.log[k].img])

C32_RelativeFirstThenOwnFile ==
  engineCall.fn = "find_and_replace_local_images" =>
    \A k \in DOMAIN engineCall.log :
      LET src == engineCall.imgs[engineCall.log[k].img]
          file == engineCall.log[k].file
      IN /\ (\E stem \in engineCall.rel : src = stem \o <<".png">>) =>
              file.where = "md" /\ file.name = src
         /\ file.where = "central" => file.saved_for = PathStem(src)

\* the first half of C32 alone: a file next to the Markdown file wins
C32_RelativeFirst ==
  engineCall.fn = "find_and_replace_local_images" =>
    \A k \in DOMAIN engineCall.log :
      LET src == engineCall.imgs[engineCall.log[k].img]
      IN (\E stem \in engineCall.rel : src = stem \o <<".png">>) =>
           engineCall.log[k].file.where = "md" /\ engineCall.log[k].file.name = src

\* ---------------------------------------------------------------- C33
EnsureDone == engineCall.pc \in {"returned", "raised"}

\* the size of the file at a path when the call ends
EnsureFileSize(path) == IF path = INPUT_PATH THEN engineCall.original_size ELSE engineCall.written

TryRank(t) == IF t = "quality" THEN 1 ELSE IF t = "resize" THEN 2 ELSE 3

\* quality reductions come first, then down-scalings, then at most one save
\* at minimum quality
TriesInOrder(tries) ==
  /\ \A i, j \in 1..Len(tries) : i < j => TryRank(tries[i]) <= TryRank(tries[j])
  /\ Cardinality({i \in 1..Len(tries) : tries[i] = "min_quality"}) <= 1

EnsureOutcome ==
  /\ engineCall.pc = "returned" =>
       /\ engineCall.result.exc = NoExc
       /\ engineCall.result.path \in {INPUT_PATH, OUTPUT_PATH}
       /\ EnsureFileSize(engineCall.result.path) > 0
       /\ EnsureFileSize(engineCall.result.path) <= engineCall.size_limit_kb * 1024
       /\ engineCall.result.path = INPUT_PATH <=> engineCall.original_size <= engineCall.size_limit_kb * 1024
       /\ engineCall.result.path = INPUT_PATH => engineCall.tries = <<>>
  /\ engineCall.pc = "raised" => engineCall.result.exc # NoExc /\ engineCall.result.path = ""
  /\ engineCall.written # 0 => engineCall.pc = "returned" /\ engineCall.result.path = OUTPUT_PATH
  /\ TriesInOrder(engineCall.tries)

\* C33: ensure_image_size ends, for every file, with an error or with a path
\* to a file that is no larger than the limit: the input path exactly when
\* the input is within the limit, otherwise the optimised file, which is
\* written only with an encoding within the limit, after quality reductions,
\* then down-scalings, then one save at minimum quality; both loops end.
C33_WithinLimitOrError == [](engineCall.fn = "ensure_image_size" => EnsureOutcome) /\ <>EnsureDone

\* A JPEG over the limit went through every quality reduction and every
\* down-scaling and was brought within the limit by the save at minimum
\* quality.
C33_Witness ==
  /\ engineCall.fn = "ensure_image_size" /\ engineCall.pc = "returned"
  /\ engineCall.result.path = OUTPUT_PATH
  /\ engineCall.original_size > engineCall.size_limit_kb * 1024
  /\ Len(engineCall.tries) > 8
  /\ engineCall.tries[1] = "quality"
  /\ engineCall.tries[Len(engineCall.tries) - 1] = "resize"
  /\ engineCall.tries[Len(engineCall.tries)] = "min_quality"

====
